---- MODULE Spec2Model ----
(***************************************************************************)
(* reppy: extraction of functions from source files and detection of their *)
(* documentation comments (lib/parser.ts, lib/generateDocs.ts).            *)
(*                                                                         *)
(* Text is a sequence of one-character strings, so that trim, startsWith,  *)
(* endsWith, includes, split and join are computed character by character. *)
(* An optional string (string | undefined) is a sequence holding no text   *)
(* (undefined) or one text.                                                *)
(***************************************************************************)
EXTENDS Integers, Sequences, FiniteSets, TLC

VARIABLES
    pc,                  \* the position of the running program
    commentText,         \* isValidDocumentation: the comment text handed in
    language,            \* isValidDocumentation: the language key handed in
    validation,          \* isValidDocumentation: the DocumentationValidation returned
    source,              \* the file being processed: its path, text and syntax tree
    functions,           \* the Function records processFile collects for the file
    documentedFunctions, \* generateDocs.ts: the process-wide documentedFunctions array
    files,               \* parseAndDocument: the paths findFiles yields, in order
    cursor,              \* parseAndDocument: how many of them the loop has taken
    tasks,               \* generateDocs: the Listr tasks still to run (indexes into functions)
    functionsToReturn,   \* generateDocs: the entries of the functions documented so far
    disk,                \* the text of each file of the scan on disk
    console,             \* the errors written with console.error
    processed,           \* for each file taken, what processing it came to
    running,             \* generateDocs with options.concurrent: where each task stands
    cli                  \* index.ts: the unsafe option, the git work tree and the exit code

classifyVars == <<commentText, language, validation>>
extractVars == <<source, functions, documentedFunctions>>
scanVars == <<files, cursor, tasks, functionsToReturn, disk, console, processed, running,
          cli>>
vars == <<pc, commentText, language, validation, source, functions, documentedFunctions,
          files, cursor, tasks, functionsToReturn, disk, console, processed, running,
          cli>>

----------------------------------------------------------------------------
(* Bounds *)

\* Texts handed to the classifier are built from at most MaxTokens tokens.
MaxTokens == 3

\* The upward scan is run on texts with at most MaxAbove lines above the function.
MaxAbove == 4

\* A file handed to an engine holds at most MaxStmts functions or statements.
MaxStmts == 2

----------------------------------------------------------------------------
(* Strings *)

Undefined == <<>>
Defined(t) == <<t>>

\* The white space String.prototype.trim removes (the part that occurs here).
WhiteSpace == {" ", "\t", "\n", "\r"}

RECURSIVE TrimStart(_)
TrimStart(s) ==
    IF s # <<>> /\ Head(s) \in WhiteSpace THEN TrimStart(Tail(s)) ELSE s

RECURSIVE TrimEnd(_)
TrimEnd(s) ==
    IF s # <<>> /\ s[Len(s)] \in WhiteSpace
    THEN TrimEnd(SubSeq(s, 1, Len(s) - 1))
    ELSE s

\* The trim that leaves the white space at the end.
Trim_StartOnly(s) == TrimStart(s)

Trim(s) == TrimEnd(TrimStart(s))

StartsWith(s, p) == Len(p) <= Len(s) /\ SubSeq(s, 1, Len(p)) = p

EndsWith(s, p) == Len(p) <= Len(s) /\ SubSeq(s, Len(s) - Len(p) + 1, Len(s)) = p

Includes(s, p) ==
    \E i \in 1..(Len(s) - Len(p) + 1) : SubSeq(s, i, i + Len(p) - 1) = p

\* s.substring(n): the text from zero-based index n on.
Substring(s, n) == SubSeq(s, n + 1, Len(s))

RECURSIVE Flatten(_)
Flatten(ss) == IF ss = <<>> THEN <<>> ELSE Head(ss) \o Flatten(Tail(ss))

\* lines.join("\n")
RECURSIVE Join(_)
Join(ls) ==
    IF ls = <<>> THEN <<>>
    ELSE IF Len(ls) = 1 THEN ls[1]
    ELSE ls[1] \o <<"\n">> \o Join(Tail(ls))

\* text.split("\n"): never empty, the empty text splits into one empty line.
RECURSIVE Split(_)
Split(s) ==
    LET breaks == {i \in 1..Len(s) : s[i] = "\n"} IN
    IF breaks = {} THEN <<s>>
    ELSE LET first == CHOOSE i \in breaks : \A j \in breaks : i <= j
         IN <<SubSeq(s, 1, first - 1)>> \o Split(SubSeq(s, first + 1, Len(s)))

----------------------------------------------------------------------------
(* Markers *)

SLASH2 == <<"/", "/">>
SLASH3 == <<"/", "/", "/">>
SLASH2BANG == <<"/", "/", "!">>
BLOCKOPEN == <<"/", "*">>
DOCOPEN == <<"/", "*", "*">>
BLOCKCLOSE == <<"*", "/">>
STAR == <<"*">>
HASH == <<"#">>
TRIPLEQUOTE == <<"\"", "\"", "\"">>
TODO == <<"T", "O", "D", "O">>

----------------------------------------------------------------------------
(* Language keys *)

LanguageKeys == {"js", "ts", "python", "rust", "java", "go"}
NoLanguage == "undefined"

----------------------------------------------------------------------------
(* Documentation Classifier *)

\* The rejection that hands an empty doc back instead of none.
Invalid_EmptyDoc == [isValid |-> FALSE, doc |-> Defined(<<>>)]

Invalid == [isValid |-> FALSE, doc |-> Undefined]
Valid(trimmedComment) == [isValid |-> TRUE, doc |-> Defined(trimmedComment)]

\* The js/ts rule testing the opener alone.
JsAccepts_OpenerOnly(commentTextArg, trimmedComment) ==
    StartsWith(trimmedComment, BLOCKOPEN)

JsAccepts(commentTextArg, trimmedComment) ==
    \/ StartsWith(trimmedComment, DOCOPEN) /\ EndsWith(trimmedComment, BLOCKCLOSE)
    \/ StartsWith(trimmedComment, BLOCKOPEN) /\ EndsWith(trimmedComment, BLOCKCLOSE)

PythonAccepts(commentTextArg, trimmedComment) ==
    \/ Includes(commentTextArg, TRIPLEQUOTE)
    \/ StartsWith(trimmedComment, HASH)

RustAccepts(commentTextArg, trimmedComment) ==
    \/ Includes(commentTextArg, SLASH3)
    \/ Includes(commentTextArg, SLASH2BANG)
    \/ Includes(commentTextArg, BLOCKOPEN) /\ Includes(commentTextArg, BLOCKCLOSE)

JavaAccepts(commentTextArg, trimmedComment) ==
    \/ StartsWith(trimmedComment, DOCOPEN)
    \/ StartsWith(trimmedComment, BLOCKOPEN)
    \/ StartsWith(trimmedComment, SLASH2)

\* The Go rule without its TODO test.
GoAccepts_NoTodoTest(commentTextArg, trimmedComment) ==
    /\ StartsWith(trimmedComment, SLASH2)
    /\ Len(trimmedComment) > 2
    /\ Len(Trim(Substring(trimmedComment, 2))) > 0

GoAccepts(commentTextArg, trimmedComment) ==
    /\ StartsWith(trimmedComment, SLASH2)
    /\ ~Includes(trimmedComment, TODO)
    /\ Len(trimmedComment) > 2
    /\ Len(Trim(Substring(trimmedComment, 2))) > 0

isValidDocumentation(commentTextArg, languageArg) ==
    IF languageArg = NoLanguage \/ commentTextArg = <<>> THEN Invalid
    ELSE LET trimmedComment == Trim(commentTextArg) IN
         CASE languageArg \in {"js", "ts"} ->
                IF JsAccepts(commentTextArg, trimmedComment)
                THEN Valid(trimmedComment) ELSE Invalid
           [] languageArg = "python" ->
                IF PythonAccepts(commentTextArg, trimmedComment)
                THEN Valid(trimmedComment) ELSE Invalid
           [] languageArg = "rust" ->
                IF RustAccepts(commentTextArg, trimmedComment)
                THEN Valid(trimmedComment) ELSE Invalid
           [] languageArg = "java" ->
                IF JavaAccepts(commentTextArg, trimmedComment)
                THEN Valid(trimmedComment) ELSE Invalid
           [] languageArg = "go" ->
                IF GoAccepts(commentTextArg, trimmedComment)
                THEN Valid(trimmedComment) ELSE Invalid
           [] OTHER -> Invalid

----------------------------------------------------------------------------
(* Fallback engine: the upward scan for a JSDoc comment *)

\* The pass collecting with push where the code collects with unshift.
ScanIteration_Push(lines, st) ==
    LET line == Trim(lines[st.currentLine + 1]) IN
    IF line = <<>>
    THEN [st EXCEPT !.currentLine = st.currentLine - 1]
    ELSE IF StartsWith(line, DOCOPEN)
    THEN [st EXCEPT !.insideComment = TRUE,
                    !.docLines = Append(st.docLines, line),
                    !.done = TRUE]
    ELSE LET collected ==
                 IF st.insideComment \/ StartsWith(line, STAR) \/ StartsWith(line, BLOCKCLOSE)
                 THEN Append(st.docLines, line)
                 ELSE st.docLines
         IN IF ~StartsWith(line, STAR) /\ ~StartsWith(line, BLOCKCLOSE) /\ ~st.insideComment
            THEN [st EXCEPT !.docLines = collected, !.done = TRUE]
            ELSE [st EXCEPT !.docLines = collected, !.currentLine = st.currentLine - 1]

\* One pass of the while loop of getJSDocComment over lines[currentLine]; done
\* records that the pass left the loop by break.
ScanIteration(lines, st) ==
    LET line == Trim(lines[st.currentLine + 1]) IN
    IF line = <<>>
    THEN [st EXCEPT !.currentLine = st.currentLine - 1]
    ELSE IF StartsWith(line, DOCOPEN)
    THEN [st EXCEPT !.insideComment = TRUE,
                    !.docLines = <<line>> \o st.docLines,
                    !.done = TRUE]
    ELSE LET collected ==
                 IF st.insideComment \/ StartsWith(line, STAR) \/ StartsWith(line, BLOCKCLOSE)
                 THEN <<line>> \o st.docLines
                 ELSE st.docLines
         IN IF ~StartsWith(line, STAR) /\ ~StartsWith(line, BLOCKCLOSE) /\ ~st.insideComment
            THEN [st EXCEPT !.docLines = collected, !.done = TRUE]
            ELSE [st EXCEPT !.docLines = collected, !.currentLine = st.currentLine - 1]

RECURSIVE ScanLoop(_, _)
ScanLoop(lines, st) ==
    IF st.done \/ st.currentLine < 0 THEN st ELSE ScanLoop(lines, ScanIteration(lines, st))

\* The scan that begins on the line of the function itself.
ScanStart_AtFunction(functionStartLine) ==
    [currentLine |-> functionStartLine, docLines |-> <<>>,
     insideComment |-> FALSE, done |-> FALSE]

ScanStart(functionStartLine) ==
    [currentLine |-> functionStartLine - 1, docLines |-> <<>>,
     insideComment |-> FALSE, done |-> FALSE]

NoDoc == [hasDoc |-> FALSE, docText |-> Undefined]

\* The result that always carries the joined lines, empty when there are none.
DocResult_TextAlways(docLines) ==
    [hasDoc |-> Len(docLines) > 0, docText |-> Defined(Join(docLines))]

DocResult(docLines) ==
    IF Len(docLines) > 0
    THEN [hasDoc |-> TRUE, docText |-> Defined(Join(docLines))]
    ELSE NoDoc

getJSDocComment(node, sourceCode) ==
    IF node.loc = Undefined THEN NoDoc
    ELSE LET lines == Split(sourceCode)
             functionStartLine == node.loc[1].start - 1
         IN DocResult(ScanLoop(lines, ScanStart(functionStartLine)).docLines)

----------------------------------------------------------------------------
(* Fallback engine: the walk over the syntax tree *)

\* A node of the tree @typescript-eslint/parser returns: its type, the name of
\* its id and of its key when it has them, its init and its other child nodes
\* in key order, its location (lines counted from 1), and nid, which names
\* the node. Identifier and literal children hold no function and are left out.
\* The record keeps the node as its nid.
Truthy(optName) == optName # Undefined /\ optName[1] # ""

InitType(node) == IF node.init = <<>> THEN "none" ELSE node.init[1].type

IsNamedFunctionNode(node) ==
    \/ node.type = "FunctionDeclaration" /\ Truthy(node.idName)
    \/ node.type = "MethodDefinition" /\ Truthy(node.keyName)
    \/ node.type = "FunctionExpression" /\ Truthy(node.idName)
    \/ /\ node.type = "VariableDeclarator"
       /\ Truthy(node.idName)
       /\ InitType(node) \in {"ArrowFunctionExpression", "FunctionExpression"}

FunctionNameOf(node) ==
    IF Truthy(node.idName) THEN node.idName
    ELSE IF Truthy(node.keyName) THEN node.keyName
    ELSE IF node.init # <<>> THEN node.idName
    ELSE Undefined

\* The slice that stops before endLine.
SliceLines_Exclusive(sourceCode, startLine, endLine) ==
    LET lines == Split(sourceCode)
        last == IF endLine < Len(lines) THEN endLine ELSE Len(lines)
    IN Join(SubSeq(lines, startLine + 1, last))

\* sourceCode.split("\n").slice(startLine, endLine + 1).join("\n")
SliceLines(sourceCode, startLine, endLine) ==
    LET lines == Split(sourceCode)
        last == IF endLine + 1 < Len(lines) THEN endLine + 1 ELSE Len(lines)
    IN Join(SubSeq(lines, startLine + 1, last))

\* The record named from node.id alone; a name that is undefined shows as the
\* empty text.
VisitFunctionNode_NameFromId(node, sourceCode, filePath, acc) ==
    LET startLine == node.loc[1].start - 1
        endLine == node.loc[1].end - 1
        docResult == getJSDocComment(node, sourceCode)
        name == IF node.idName = Undefined THEN "" ELSE node.idName[1]
    IN [functions |->
            Append(acc.functions,
                   [name |-> name, node |-> node.nid, filePath |-> filePath,
                    startLine |-> startLine, endLine |-> endLine,
                    sourceCode |-> SliceLines(sourceCode, startLine, endLine),
                    isDocumented |-> docResult.hasDoc,
                    cleanedDoc |-> docResult.docText]),
        documentedFunctions |->
            IF docResult.hasDoc /\ docResult.docText # Undefined /\ docResult.docText[1] # <<>>
            THEN Append(acc.documentedFunctions,
                        [name |-> name, documentation |-> docResult.docText[1],
                         filePath |-> filePath])
            ELSE acc.documentedFunctions]

\* The body of traverse for a node that passed the test: the record pushed to
\* functions and, for a documented function, the entry pushed to
\* documentedFunctions.
VisitFunctionNode(node, sourceCode, filePath, acc) ==
    LET functionName == FunctionNameOf(node)
        startLine == node.loc[1].start - 1
        endLine == node.loc[1].end - 1
        docResult == getJSDocComment(node, sourceCode)
        isDocumented == docResult.hasDoc
        entry == [name |-> functionName[1],
                  documentation |-> docResult.docText[1],
                  filePath |-> filePath]
        record == [name |-> functionName[1],
                   node |-> node.nid,
                   filePath |-> filePath,
                   startLine |-> startLine,
                   endLine |-> endLine,
                   sourceCode |-> SliceLines(sourceCode, startLine, endLine),
                   isDocumented |-> isDocumented,
                   cleanedDoc |-> docResult.docText]
    IN [functions |-> Append(acc.functions, record),
        documentedFunctions |->
            IF isDocumented /\ docResult.docText # Undefined /\ docResult.docText[1] # <<>>
            THEN Append(acc.documentedFunctions, entry)
            ELSE acc.documentedFunctions]

RECURSIVE traverse(_, _, _, _)
RECURSIVE TraverseChildren(_, _, _, _)

\* for (const key in node) traverse(node[key]), over the children in key order.
TraverseChildren(nodes, sourceCode, filePath, acc) ==
    IF nodes = <<>> THEN acc
    ELSE TraverseChildren(Tail(nodes), sourceCode, filePath,
                          traverse(Head(nodes), sourceCode, filePath, acc))

traverse(node, sourceCode, filePath, acc) ==
    LET named == IsNamedFunctionNode(node) IN
    IF named /\ FunctionNameOf(node) = Undefined THEN acc
    ELSE TraverseChildren(node.init \o node.body, sourceCode, filePath,
                          IF named
                          THEN VisitFunctionNode(node, sourceCode, filePath, acc)
                          ELSE acc)

\* processJavaScriptAST: the records of `functions` and the process-wide array
\* after the walk from the root.
processJavaScriptAST(ast, sourceCode, filePath, functionsArg, documentedArg) ==
    traverse(ast, sourceCode, filePath,
             [functions |-> functionsArg, documentedFunctions |-> documentedArg])

----------------------------------------------------------------------------
(* Grammar Registry *)

SUPPORTED_LANGUAGES ==
    <<[key |-> "js", extensions |-> {".js", ".jsx"}],
      [key |-> "ts", extensions |-> {".ts", ".tsx"}],
      [key |-> "python", extensions |-> {".py"}],
      [key |-> "rust", extensions |-> {".rs"}],
      [key |-> "java", extensions |-> {".java"}],
      [key |-> "go", extensions |-> {".go"}]>>

\* The extensions of the registry.
RegistryExtensions ==
    UNION {SUPPORTED_LANGUAGES[i].extensions : i \in DOMAIN SUPPORTED_LANGUAGES}

\* A path is its name without the extension and the extension path.extname
\* returns for it (from the last dot on, or empty).
Path(stem, ext) == [root |-> "/cwd", stem |-> stem, ext |-> ext]

\* path.relative(process.cwd(), filePath)
RelativePath(filePath) == filePath.stem \o filePath.ext

\* The lookup comparing extensions without regard to case.
getLanguageForFile_IgnoreCase(filePath) ==
    LET ext == IF filePath.ext = ".PY" THEN ".py" ELSE filePath.ext
        hits == {i \in DOMAIN SUPPORTED_LANGUAGES : ext \in SUPPORTED_LANGUAGES[i].extensions}
    IN IF hits = {} THEN NoLanguage
       ELSE SUPPORTED_LANGUAGES[CHOOSE i \in hits : \A j \in hits : i <= j].key

getLanguageForFile(filePath) ==
    LET hits == {i \in DOMAIN SUPPORTED_LANGUAGES :
                    filePath.ext \in SUPPORTED_LANGUAGES[i].extensions}
    IN IF hits = {} THEN NoLanguage
       ELSE SUPPORTED_LANGUAGES[CHOOSE i \in hits : \A j \in hits : i <= j].key

----------------------------------------------------------------------------
(* Tree engine: processMatchesAndCollect *)

\* A match is its captures in order; a capture is its name and its node; a node
\* is its text, its first and last row and nid, which names the node.
Capture(name, node) == [name |-> name, node |-> node]

\* captures.find(c => c.name === name): no capture or the first one.
FindCapture(captures, name) ==
    LET hits == {i \in DOMAIN captures : captures[i].name = name}
    IN IF hits = {} THEN <<>>
       ELSE <<captures[CHOOSE i \in hits : \A j \in hits : i <= j]>>

\* captures.filter(c => c.name === name)
FilterCaptures(captures, name) == SelectSeq(captures, LAMBDA c : c.name = name)

funcKey(functionName, functionNode) ==
    functionName.node.text \o "-" \o ToString(functionNode.node.startRow)

\* The loop without its break: the validation of the last doc node the
\* classifier accepts.
RECURSIVE FirstValidDoc_Last(_, _)
FirstValidDoc_Last(docNodes, lang) ==
    IF docNodes = <<>> THEN Invalid
    ELSE LET v == isValidDocumentation(docNodes[Len(docNodes)].node.text, lang)
         IN IF v.isValid THEN v
            ELSE FirstValidDoc_Last(SubSeq(docNodes, 1, Len(docNodes) - 1), lang)

\* The for loop over docNodes: the validation of the first doc node the
\* classifier accepts, or an invalid one.
RECURSIVE FirstValidDoc(_, _)
FirstValidDoc(docNodes, lang) ==
    IF docNodes = <<>> THEN Invalid
    ELSE LET v == isValidDocumentation(Head(docNodes).node.text, lang)
         IN IF v.isValid THEN v ELSE FirstValidDoc(Tail(docNodes), lang)

IsProcessed(processedFunctions, key) == key \in processedFunctions

\* The callback of matches.forEach for one match; acc holds functions,
\* documentedFunctions and processedFunctions.
ProcessMatch(match, filePath, sourceCode, acc) ==
    LET functionNode == FindCapture(match.captures, "function")
        docNodes == FilterCaptures(match.captures, "doc")
        functionName == FindCapture(match.captures, "function_name")
    IN IF functionNode = <<>> \/ functionName = <<>> THEN acc
       ELSE LET key == funcKey(functionName[1], functionNode[1]) IN
            IF IsProcessed(acc.processedFunctions, key) THEN acc
            ELSE LET lang == getLanguageForFile(filePath)
                     v == FirstValidDoc(docNodes, lang)
                     record == [name |-> functionName[1].node.text,
                                node |-> functionNode[1].node.nid,
                                filePath |-> filePath,
                                startLine |-> functionNode[1].node.startRow,
                                endLine |-> functionNode[1].node.endRow,
                                sourceCode |-> SliceLines(sourceCode,
                                                   functionNode[1].node.startRow,
                                                   functionNode[1].node.endRow),
                                isDocumented |-> v.isValid,
                                cleanedDoc |-> v.doc]
                     entry == [name |-> functionName[1].node.text,
                               documentation |-> v.doc[1],
                               filePath |-> filePath]
                 IN [functions |-> Append(acc.functions, record),
                     documentedFunctions |->
                         IF v.isValid THEN Append(acc.documentedFunctions, entry)
                         ELSE acc.documentedFunctions,
                     processedFunctions |-> acc.processedFunctions \cup {key}]

RECURSIVE ForEachMatch(_, _, _, _)
ForEachMatch(matches, filePath, sourceCode, acc) ==
    IF matches = <<>> THEN acc
    ELSE ForEachMatch(Tail(matches), filePath, sourceCode,
                      ProcessMatch(Head(matches), filePath, sourceCode, acc))

processMatchesAndCollect(matches, filePath, sourceCode, functionsArg, documentedArg) ==
    ForEachMatch(matches, filePath, sourceCode,
                 [functions |-> functionsArg, documentedFunctions |-> documentedArg,
                  processedFunctions |-> {}])

----------------------------------------------------------------------------
(* Inputs of the classifier *)

ExampleGoTodo ==
    <<"/", "/", " ", "T", "O", "D", "O", ":", " ", "f", "i", "x", " ", "t", "h", "i", "s">>
ExampleGoBare == <<"/", "/">>
ExampleGoSum ==
    <<"/", "/", " ", "C", "o", "m", "p", "u", "t", "e", "s", " ", "t", "h", "e", " ",
      "s", "u", "m", " ", "o", "f", " ", "t", "w", "o", " ", "i", "n", "t", "e", "g",
      "e", "r", "s", ".">>
ExampleJsDoc ==
    <<"/", "*", "*", " ", "A", "d", "d", "s", " ", "t", "w", "o", " ", "n", "u", "m",
      "b", "e", "r", "s", ".", " ", "*", "/">>
ExampleJsLine ==
    <<"/", "/", " ", "A", "d", "d", "s", " ", "t", "w", "o", " ", "n", "u", "m", "b",
      "e", "r", "s", ".">>

ExampleGoSumPadded == <<" ">> \o ExampleGoSum \o <<"\n">>

Examples ==
    {ExampleGoTodo, ExampleGoBare, ExampleGoSum, ExampleGoSumPadded,
     ExampleJsDoc, ExampleJsLine}

\* The pieces texts are built from, per language: the markers its rule reads,
\* pieces of them, white space and other text.
TokensFor(lang) ==
    CASE lang \in {"js", "ts"} -> {BLOCKOPEN, BLOCKCLOSE, <<"/">>, STAR, <<" ">>, <<"x">>}
      [] lang = "python" -> {TRIPLEQUOTE, <<"\"">>, <<"'">>, HASH, <<" ">>, <<"x">>}
      [] lang = "rust" -> {SLASH2, <<"/">>, <<"!">>, BLOCKOPEN, BLOCKCLOSE, <<" ">>, <<"x">>}
      [] lang = "java" -> {BLOCKOPEN, SLASH2, <<"/">>, STAR, <<" ">>, <<"x">>}
      [] lang = "go" -> {SLASH2, <<"/">>, TODO, <<"T", "O", "D">>, <<" ">>, <<"\n">>, <<"x">>}
      [] OTHER -> {BLOCKOPEN, BLOCKCLOSE, SLASH2, <<"x">>}

TextsFor(lang) ==
    {Flatten(ts) : ts \in UNION {[1..n -> TokensFor(lang)] : n \in 0..MaxTokens}}
        \cup Examples

----------------------------------------------------------------------------
(* The classifier applied to one input *)

NotCalled == [isValid |-> FALSE, doc |-> Undefined]
NoSource == [filePath |-> Path("", ""), sourceCode |-> <<>>]

\* The program as parseAndDocument finds it when main is left out: no git
\* command has run and the process has not exited.
NoCli == [unsafe |-> FALSE, workTree |-> "clean", executed |-> <<>>, exitCode |-> Undefined]

\* No scan is running: the single-file specifications leave the loop of
\* parseAndDocument out.
NoScan ==
    /\ files = <<>>
    /\ cursor = 0
    /\ tasks = <<>>
    /\ functionsToReturn = <<>>
    /\ disk = <<>>
    /\ console = {}
    /\ processed = <<>>
    /\ running = <<>>
    /\ cli = NoCli

InitClassify ==
    /\ pc = "classify"
    /\ language \in LanguageKeys \cup {NoLanguage}
    /\ commentText \in TextsFor(language)
    /\ validation = NotCalled
    /\ source = NoSource
    /\ functions = <<>>
    /\ documentedFunctions = <<>>
    /\ NoScan

Classify ==
    /\ pc = "classify"
    /\ validation' = isValidDocumentation(commentText, language)
    /\ pc' = "classified"
    /\ UNCHANGED <<commentText, language>>
    /\ UNCHANGED extractVars
    /\ UNCHANGED scanVars

NextClassify == Classify

SpecClassify == InitClassify /\ [][NextClassify]_vars

----------------------------------------------------------------------------
(* Claims about the classifier *)

\* The trimmed form of a text, stated by positions: what lies between its
\* first and its last character that is not white space.
TrimmedForm(s) ==
    LET idx == {i \in 1..Len(s) : s[i] \notin WhiteSpace} IN
    IF idx = {} THEN <<>>
    ELSE SubSeq(s, CHOOSE i \in idx : \A j \in idx : i <= j,
                   CHOOSE i \in idx : \A j \in idx : i >= j)

HasAt(s, p, i) == \A k \in 1..Len(p) : i + k - 1 <= Len(s) /\ s[i + k - 1] = p[k]

\* C6: for Go a comment is accepted if and only if its trimmed form starts
\* with //, holds no TODO, is longer than 2 characters and has a character that
\* is not white space after the //; the cleaned text is the trimmed input;
\* "// TODO: fix this" and "//" are invalid, "// Computes the sum of two
\* integers." is valid.
C6_GoRule ==
    (pc = "classified" /\ language = "go") =>
        LET t == TrimmedForm(commentText) IN
        /\ validation.isValid <=>
              /\ HasAt(t, SLASH2, 1)
              /\ ~\E i \in 1..Len(t) : HasAt(t, TODO, i)
              /\ Len(t) > 2
              /\ \E i \in 3..Len(t) : t[i] \notin WhiteSpace
        /\ validation.isValid => validation.doc = Defined(t)
        /\ commentText \in {ExampleGoTodo, ExampleGoBare} => ~validation.isValid
        /\ commentText = ExampleGoSum =>
              validation = [isValid |-> TRUE, doc |-> Defined(ExampleGoSum)]

C6_Witness ==
    /\ pc = "classified" /\ language = "go"
    /\ commentText = ExampleGoSumPadded
    /\ validation = [isValid |-> TRUE, doc |-> Defined(ExampleGoSum)]

\* C7: for js and ts a comment is accepted if and only if its trimmed form
\* starts with the block-comment opener and ends with the block-comment closer;
\* "/** Adds two numbers. */" is valid, "// Adds two numbers." is invalid.
C7_JsRule ==
    (pc = "classified" /\ language \in {"js", "ts"}) =>
        LET t == TrimmedForm(commentText) IN
        /\ validation.isValid <=>
              /\ HasAt(t, BLOCKOPEN, 1)
              /\ Len(t) >= 2 /\ HasAt(t, BLOCKCLOSE, Len(t) - 1)
        /\ commentText = ExampleJsDoc => validation.isValid
        /\ commentText = ExampleJsLine => ~validation.isValid

C7_Witness ==
    /\ pc = "classified" /\ language = "ts"
    /\ commentText = ExampleJsDoc
    /\ validation = [isValid |-> TRUE, doc |-> Defined(ExampleJsDoc)]

----------------------------------------------------------------------------
(* Inputs of the upward scan *)

LineEmpty == <<>>
LineBlank == <<" ">>
LineDocOpen == <<"/", "*", "*">>
LineDocCont == <<" ", "*", " ", "D", "o", "u", "b", "l", "e", "s", " ", "x">>
LineDocClose == <<" ", "*", "/">>
LineDocOne == <<"/", "*", "*", " ", "x", " ", "*", "/">>
LineText == <<"x">>
LineTextClose == <<"x", " ", "*", "/">>
LinePlainOpen == <<"/", "*", " ", "x">>
LineFunctionDouble ==
    <<"f", "u", "n", "c", "t", "i", "o", "n", " ", "d", "o", "u", "b", "l", "e", "(", "x", ")", " ", "{", " ", "r", "e", "t", "u", "r", "n", " ", "x", "*", "2", " ", "}">>

LineVocabulary ==
    {LineEmpty, LineBlank, LineDocOpen, LineDocCont, LineDocClose, LineDocOne,
     LineText, LineTextClose, LinePlainOpen}

AboveLines == UNION {[1..n -> LineVocabulary] : n \in 0..MaxAbove}

Loc(startLine, endLine) == Defined([start |-> startLine, end |-> endLine])

\* fn names the source function a node denotes (0: none): a declarator and the
\* function expression it is initialised with denote the same function.
Node(type, idName, keyName, init, body, loc, nid, fn) ==
    [type |-> type, idName |-> idName, keyName |-> keyName, init |-> init,
     body |-> body, loc |-> loc, nid |-> nid, fn |-> fn]

Program(body, lastLine) ==
    Node("Program", Undefined, Undefined, <<>>, body, Loc(1, lastLine), 0, 0)

\* function double(x) { return x*2 } on the line below the lines `above`.
DoubleBelow(above) ==
    [filePath |-> Path("double", ".js"),
     sourceCode |-> Join(above \o <<LineFunctionDouble>>),
     ast |-> Program(<<Node("FunctionDeclaration", Defined("double"), Undefined, <<>>,
                            <<>>, Loc(Len(above) + 1, Len(above) + 1), 1, 1)>>,
                     Len(above) + 1)]

ExampleAbove == <<LineEmpty, LineDocOpen, LineDocCont, LineDocClose>>

----------------------------------------------------------------------------
(* Inputs of the fallback engine: JavaScript and TypeScript files *)

Names == {"f", "g"}

\* One top-level statement on line `l` (counted from 1): its line of text and
\* its node.
Leaf(type, idName, l, nid, fn) ==
    Node(type, idName, Undefined, <<>>, <<>>, Loc(l, l), nid, fn)

Declarator(n, init, l, fn) ==
    Node("VariableDeclaration", Undefined, Undefined, <<>>,
         <<Node("VariableDeclarator", Defined(n), Undefined, init, <<>>,
                Loc(l, l), 10 * l + 2, fn)>>,
         Loc(l, l), 10 * l + 1, 0)

\* function n() {}
StmtFunction(n, l) ==
    [text |-> <<"f", "u", "n", "c", " ", n>>,
     node |-> Leaf("FunctionDeclaration", Defined(n), l, 10 * l + 1, 10 * l + 1)]

\* export default function () {}
StmtDefaultFunction(l) ==
    [text |-> <<"e", "x", "p", " ", "f", "u", "n", "c">>,
     node |-> Node("ExportDefaultDeclaration", Undefined, Undefined, <<>>,
                   <<Leaf("FunctionDeclaration", Undefined, l, 10 * l + 2, 10 * l + 2)>>,
                   Loc(l, l), 10 * l + 1, 0)]

\* const n = () => {}
StmtArrow(n, l) ==
    [text |-> <<n, " ", "=", " ", "(", ")", "=", ">">>,
     node |-> Declarator(n, <<Leaf("ArrowFunctionExpression", Undefined, l,
                                   10 * l + 3, 10 * l + 3)>>, l, 10 * l + 3)]

\* const n = function () {} and const n = function m() {}
StmtFunctionExpression(n, m, l) ==
    [text |-> <<n, " ", "=", " ", "f", "u", "n", "c">>,
     node |-> Declarator(n, <<Leaf("FunctionExpression", m, l,
                                   10 * l + 3, 10 * l + 3)>>, l, 10 * l + 3)]

\* const n = 1
StmtLiteral(n, l) ==
    [text |-> <<n, " ", "=", " ", "1">>,
     node |-> Declarator(n, <<Leaf("Literal", Undefined, l, 10 * l + 3, 0)>>, l, 0)]

\* (function () {})() and (() => {})()
StmtCall(type, l) ==
    [text |-> <<"(", "f", ")", "(", ")">>,
     node |-> Node("ExpressionStatement", Undefined, Undefined, <<>>,
                   <<Leaf(type, Undefined, l, 10 * l + 2, 10 * l + 2)>>,
                   Loc(l, l), 10 * l + 1, 0)]

\* class C { n() {} }, and with keyName undefined class C { "n"() {} }
StmtMethod(keyName, l) ==
    [text |-> <<"c", "l", "a", "s", "s", " ", "C">>,
     node |-> Node("ClassDeclaration", Defined("C"), Undefined, <<>>,
                   <<Node("MethodDefinition", Undefined, keyName, <<>>,
                          <<Leaf("FunctionExpression", Undefined, l,
                                 10 * l + 3, 10 * l + 3)>>,
                          Loc(l, l), 10 * l + 2, 10 * l + 3)>>,
                   Loc(l, l), 10 * l + 1, 0)]

JsShapes ==
    {"function f", "function g", "default function", "arrow f", "funexpr f",
     "funexpr f f", "funexpr f g", "literal f", "call function", "call arrow",
     "method f", "method literal"}

JsStatement(shape, l) ==
    CASE shape = "function f" -> StmtFunction("f", l)
      [] shape = "function g" -> StmtFunction("g", l)
      [] shape = "default function" -> StmtDefaultFunction(l)
      [] shape = "arrow f" -> StmtArrow("f", l)
      [] shape = "funexpr f" -> StmtFunctionExpression("f", Undefined, l)
      [] shape = "funexpr f f" -> StmtFunctionExpression("f", Defined("f"), l)
      [] shape = "funexpr f g" -> StmtFunctionExpression("f", Defined("g"), l)
      [] shape = "literal f" -> StmtLiteral("f", l)
      [] shape = "call function" -> StmtCall("FunctionExpression", l)
      [] shape = "call arrow" -> StmtCall("ArrowFunctionExpression", l)
      [] shape = "method f" -> StmtMethod(Defined("f"), l)
      [] shape = "method literal" -> StmtMethod(Undefined, l)

\* A chunk is the comment lines above a statement and the statement's shape.
JsChunks == {[above |-> a, shape |-> sh] : a \in {<<>>, <<LineDocOne>>}, sh \in JsShapes}

RECURSIVE JsLayout(_, _)
JsLayout(chunks, row) ==
    IF chunks = <<>> THEN <<>>
    ELSE LET c == Head(chunks)
             l == row + Len(c.above) + 1
         IN <<[above |-> c.above, stmt |-> JsStatement(c.shape, l)]>>
                \o JsLayout(Tail(chunks), l)

RECURSIVE LaidLines(_)
LaidLines(laid) ==
    IF laid = <<>> THEN <<>>
    ELSE Head(laid).above \o <<Head(laid).stmt.text>> \o LaidLines(Tail(laid))

JsFile(ext, chunks) ==
    LET laid == JsLayout(chunks, 0)
        lines == LaidLines(laid)
    IN [filePath |-> Path("a", ext),
        sourceCode |-> Join(lines),
        ast |-> Program([i \in 1..Len(laid) |-> laid[i].stmt.node], Len(lines))]

JsFiles ==
    {JsFile(".ts", chunks) : chunks \in UNION {[1..n -> JsChunks] : n \in 1..MaxStmts}}

RECURSIVE NodesOf(_)
RECURSIVE NodesOfAll(_)
NodesOfAll(nodes) ==
    IF nodes = <<>> THEN {} ELSE NodesOf(Head(nodes)) \cup NodesOfAll(Tail(nodes))
NodesOf(node) == {node} \cup NodesOfAll(node.init \o node.body)

----------------------------------------------------------------------------
(* Inputs of the tree engine: Python, Rust, Java and Go files *)

Comment(type, text) == [type |-> type, text |-> text]

JavaDoc == Comment("block_comment", <<"/", "*", "*", " ", "d", " ", "*", "/">>)
JavaLine == Comment("line_comment", <<"/", "/", " ", "d">>)
RustDoc == Comment("line_comment", <<"/", "/", "/", " ", "d">>)
RustPlain == Comment("line_comment", <<"/", "/", " ", "d">>)
GoDoc == Comment("comment", <<"/", "/", " ", "d">>)
GoTodo == Comment("comment", <<"/", "/", " ", "T", "O", "D", "O", " ", "d">>)
GoNote == Comment("comment", <<"/", "/", " ", "e">>)

PyPass == [kind |-> "other", text |-> <<"p", "a", "s", "s">>]
PyTriple == [kind |-> "string", text |-> <<"\"", "\"", "\"", "d", "\"", "\"", "\"">>]
PySingle == [kind |-> "string", text |-> <<"'", "d", "'">>]

\* A function of a file: its name, the comments on the lines above it, the
\* statements of its body (Python) and whether it is a method of a class of
\* its own (Python).
Item(name, comments, body, inClass) ==
    [name |-> name, comments |-> comments, body |-> body, inClass |-> inClass]

ItemsFor(lang) ==
    CASE lang = "python" ->
            {Item("f", <<>>, b, FALSE) :
                b \in {<<PyPass>>, <<PyTriple>>, <<PySingle>>, <<PyPass, PyTriple>>}}
            \cup {Item("f", <<>>, b, TRUE) : b \in {<<PyPass>>, <<PyTriple>>}}
            \cup {Item("g", <<>>, b, FALSE) : b \in {<<PyPass>>, <<PyTriple>>}}
      [] lang = "java" ->
            {Item("f", c, <<>>, FALSE) : c \in {<<>>, <<JavaDoc>>, <<JavaLine>>}}
            \cup {Item("g", c, <<>>, FALSE) : c \in {<<>>, <<JavaDoc>>}}
      [] lang = "rust" ->
            {Item("f", c, <<>>, FALSE) : c \in {<<>>, <<RustDoc>>, <<RustPlain>>}}
            \cup {Item("g", <<>>, <<>>, FALSE)}
      [] lang = "go" ->
            {Item("f", c, <<>>, FALSE) :
                c \in {<<>>, <<GoDoc>>, <<GoTodo>>, <<GoTodo, GoDoc>>, <<GoDoc, GoNote>>}}
            \cup {Item("g", <<>>, <<>>, FALSE)}

ExtensionOf(lang) ==
    CASE lang = "python" -> ".py" [] lang = "rust" -> ".rs"
      [] lang = "java" -> ".java" [] lang = "go" -> ".go"

Indent(n, text) == [i \in 1..n |-> " "] \o text

\* The lines of an item: the class line of a method, the comments, the
\* declaration and the body.
ItemHeader(lang, item) ==
    IF item.inClass THEN <<<<"c", "l", "a", "s", "s", " ", "C", ":">>>> ELSE <<>>

DeclLine(lang, item) ==
    CASE lang = "python" ->
            Indent(IF item.inClass THEN 2 ELSE 0, <<"d", "e", "f", " ", item.name, "(", ")", ":">>)
      [] lang = "java" -> <<" ", "v", "o", "i", "d", " ", item.name, "(", ")", "{", "}">>
      [] lang = "rust" -> <<"f", "n", " ", item.name, "(", ")", "{", "}">>
      [] lang = "go" -> <<"f", "u", "n", "c", " ", item.name, "(", ")", "{", "}">>

ItemLines(lang, item) ==
    ItemHeader(lang, item)
        \o [j \in 1..Len(item.comments) |-> item.comments[j].text]
        \o <<DeclLine(lang, item)>>
        \o [k \in 1..Len(item.body) |->
               Indent(IF item.inClass THEN 4 ELSE 2, item.body[k].text)]

\* Java functions are the methods of one class: a line opens it, a line closes it.
Prologue(lang) == IF lang = "java" THEN <<<<"c", "l", "a", "s", "s", " ", "C", " ", "{">>>> ELSE <<>>
Epilogue(lang) == IF lang = "java" THEN <<<<"}">>>> ELSE <<>>

RECURSIVE ItemStart(_, _, _)
ItemStart(lang, items, i) ==
    IF i = 1 THEN Len(Prologue(lang))
    ELSE ItemStart(lang, items, i - 1) + Len(ItemLines(lang, items[i - 1]))

RECURSIVE AllItemLines(_, _)
AllItemLines(lang, items) ==
    IF items = <<>> THEN <<>>
    ELSE ItemLines(lang, Head(items)) \o AllItemLines(lang, Tail(items))

\* The nodes the parser yields for item i: the function, its name, the
\* comments above it and the statements of its body.
FunctionNode(lang, items, i) ==
    LET row == ItemStart(lang, items, i) + Len(ItemHeader(lang, items[i]))
                   + Len(items[i].comments)
    IN [text |-> DeclLine(lang, items[i]), startRow |-> row,
        endRow |-> row + Len(items[i].body), nid |-> i]

NameNode(lang, items, i) ==
    LET row == FunctionNode(lang, items, i).startRow
    IN [text |-> items[i].name, startRow |-> row, endRow |-> row, nid |-> 100 * i]

CommentNode(lang, items, i, j) ==
    LET row == ItemStart(lang, items, i) + Len(ItemHeader(lang, items[i])) + j - 1
    IN [text |-> items[i].comments[j].text, startRow |-> row, endRow |-> row,
        nid |-> 100 * i + j, type |-> items[i].comments[j].type]

StatementNode(lang, items, i, k) ==
    LET row == FunctionNode(lang, items, i).startRow + k
    IN [text |-> items[i].body[k].text, startRow |-> row, endRow |-> row,
        nid |-> 100 * i + 50 + k]

TreeFile(lang, items) ==
    [filePath |-> Path("a", ExtensionOf(lang)),
     sourceCode |-> Join(Prologue(lang) \o AllItemLines(lang, items) \o Epilogue(lang)),
     items |-> items]

TreeLanguages == {"python", "rust", "java", "go"}

TreeFiles ==
    UNION {{TreeFile(lang, items) :
               items \in UNION {[1..n -> ItemsFor(lang)] : n \in 1..MaxStmts}} :
           lang \in TreeLanguages}

----------------------------------------------------------------------------
(* Function-Pattern Catalog: what the query of getFunctionQuery matches *)

\* A sibling pattern of a query matches a sibling anywhere before the
\* declaration, there being no anchor between the two: the comments that can
\* be captured for function i are those of the functions 1..i.
RECURSIVE CommentsBefore(_, _, _, _)
CommentsBefore(lang, items, i, type) ==
    IF i = 0 THEN <<>>
    ELSE CommentsBefore(lang, items, i - 1, type)
            \o SelectSeq([j \in 1..Len(items[i].comments) |-> CommentNode(lang, items, i, j)],
                         LAMBDA c : c.type = type)

Match(pattern, lang, items, i, docNodes) ==
    [pattern |-> pattern,
     captures |-> [d \in 1..Len(docNodes) |-> Capture("doc", docNodes[d])]
                     \o <<Capture("function", FunctionNode(lang, items, i)),
                          Capture("function_name", NameNode(lang, items, i))>>]

\* Python: a function_definition, alone or as a statement of a class body,
\* with a string expression statement among the statements of its body (the
\* pattern sets no anchor before it), and without.
PythonMatches(items, i) ==
    LET strings == SelectSeq([k \in 1..Len(items[i].body) |-> k],
                             LAMBDA k : items[i].body[k].kind = "string")
        docs(tag) == [x \in 1..Len(strings) |->
                        Match(tag, "python", items, i,
                              <<StatementNode("python", items, i, strings[x])>>)]
    IN docs("function with documentation")
        \o (IF items[i].inClass THEN docs("class method with documentation") ELSE <<>>)
        \o <<Match("function without documentation", "python", items, i, <<>>)>>
        \o (IF items[i].inClass
            THEN <<Match("class method without documentation", "python", items, i, <<>>)>>
            ELSE <<>>)

\* Java and Rust: one comment of the captured type before the declaration,
\* and the declaration alone.
SingleCommentMatches(lang, type, items, i) ==
    LET cs == CommentsBefore(lang, items, i, type)
    IN [x \in 1..Len(cs) |-> Match("with documentation", lang, items, i, <<cs[x]>>)]
        \o <<Match("without documentation", lang, items, i, <<>>)>>

\* Go: the run of comments before the declaration, and the declaration alone.
GoMatches(items, i) ==
    LET cs == CommentsBefore("go", items, i, "comment")
    IN (IF cs = <<>> THEN <<>> ELSE <<Match("with documentation", "go", items, i, cs)>>)
        \o <<Match("without documentation", "go", items, i, <<>>)>>

\* The matches of function i, documented patterns first.
QueryMatchesOf(lang, items, i) ==
    CASE lang = "python" -> PythonMatches(items, i)
      [] lang = "java" -> SingleCommentMatches("java", "block_comment", items, i)
      [] lang = "rust" -> SingleCommentMatches("rust", "line_comment", items, i)
      [] lang = "go" -> GoMatches(items, i)

\* query.matches returns the matches as the walk over the tree completes them:
\* function after function in source order, and the matches of one function in
\* an order the source does not fix; any of them may come first.
FirstChoices(group) ==
    {<<group[x]>> \o SelectSeq(group, LAMBDA m : m # group[x]) : x \in DOMAIN group}

RECURSIVE MatchOrdersFrom(_, _, _)
MatchOrdersFrom(lang, items, i) ==
    IF i > Len(items) THEN {<<>>}
    ELSE {first \o rest : first \in FirstChoices(QueryMatchesOf(lang, items, i)),
                          rest \in MatchOrdersFrom(lang, items, i + 1)}

QueryMatchOrders(lang, items) == MatchOrdersFrom(lang, items, 1)

----------------------------------------------------------------------------
(* One file handed to its engine *)

InitExtract ==
    /\ pc = "extract"
    /\ source \in JsFiles \cup TreeFiles
    /\ functions = <<>>
    /\ documentedFunctions = <<>>
    /\ commentText = <<>>
    /\ language = NoLanguage
    /\ validation = NotCalled
    /\ NoScan

\* processFile for a file of a tree-sitter language, from the query's matches
\* on: processMatchesAndCollect fills functions and documentedFunctions.
ExtractTree ==
    /\ pc = "extract"
    /\ "items" \in DOMAIN source
    /\ \E matches \in QueryMatchOrders(getLanguageForFile(source.filePath), source.items) :
          LET out == processMatchesAndCollect(matches, source.filePath, source.sourceCode,
                                              <<>>, documentedFunctions)
          IN /\ functions' = out.functions
             /\ documentedFunctions' = out.documentedFunctions
    /\ pc' = "extracted"
    /\ UNCHANGED <<source, commentText, language, validation>>
    /\ UNCHANGED scanVars

----------------------------------------------------------------------------
(* The fallback engine applied to one function below bounded lines *)

InitJSDoc ==
    /\ pc = "extract"
    /\ source \in {DoubleBelow(above) : above \in AboveLines}
    /\ functions = <<>>
    /\ documentedFunctions = <<>>
    /\ commentText = <<>>
    /\ language = NoLanguage
    /\ validation = NotCalled
    /\ NoScan

\* processJavaScriptFile from the parsed tree on: the walk fills functions and
\* documentedFunctions.
ExtractJavaScript ==
    /\ pc = "extract"
    /\ "ast" \in DOMAIN source
    /\ LET out == processJavaScriptAST(source.ast, source.sourceCode, source.filePath,
                                       <<>>, documentedFunctions)
       IN /\ functions' = out.functions
          /\ documentedFunctions' = out.documentedFunctions
    /\ pc' = "extracted"
    /\ UNCHANGED <<source, commentText, language, validation>>
    /\ UNCHANGED scanVars

NextJSDoc == ExtractJavaScript

SpecJSDoc == InitJSDoc /\ [][NextJSDoc]_vars

NextExtract == ExtractJavaScript \/ ExtractTree

SpecExtract == InitExtract /\ [][NextExtract]_vars

----------------------------------------------------------------------------
(* Claims about the upward scan *)

\* Lines k..e (counted from 0) of `lines` are one /** ... */ comment: line k
\* opens it, line e closes it and no line before e does.
IsDocBlock(lines, k, e) ==
    /\ StartsWith(Trim(lines[k + 1]), DOCOPEN)
    /\ EndsWith(Trim(lines[e + 1]), BLOCKCLOSE)
    /\ \A j \in k..(e - 1) : ~Includes(lines[j + 1], BLOCKCLOSE)

RECURSIVE TrimmedNonBlank(_)
TrimmedNonBlank(ls) ==
    IF ls = <<>> THEN <<>>
    ELSE IF Trim(Head(ls)) = <<>> THEN TrimmedNonBlank(Tail(ls))
    ELSE <<Trim(Head(ls))>> \o TrimmedNonBlank(Tail(ls))

ExampleDocTrimmed ==
    Join(<<Trim(LineDocOpen), Trim(LineDocCont), Trim(LineDocClose)>>)

\* C9 as stated: a /** ... */ comment directly above the function makes the
\* record documented with cleanedDoc equal to the comment's lines joined by
\* newlines; for the example lines, the three comment lines joined.
C9_AsStated ==
    (pc = "extracted" /\ Len(functions) = 1) =>
        LET lines == Split(source.sourceCode)
            s == functions[1].startLine
        IN /\ \A k \in 0..(s - 1) :
                 IsDocBlock(lines, k, s - 1) =>
                    /\ functions[1].isDocumented
                    /\ functions[1].cleanedDoc = Defined(Join(SubSeq(lines, k + 1, s)))
           /\ source = DoubleBelow(ExampleAbove) =>
                 functions[1].cleanedDoc =
                    Defined(Join(<<LineDocOpen, LineDocCont, LineDocClose>>))

\* C9 as amended: when every line of the comment after its first is blank or
\* begins, once trimmed, with *, the record is documented, cleanedDoc is the
\* comment's non-blank lines, each trimmed, in source order, joined by
\* newlines, and that text is the entry appended to documentedFunctions.
C9_TrimmedLines ==
    (pc = "extracted" /\ Len(functions) = 1) =>
        LET lines == Split(source.sourceCode)
            s == functions[1].startLine
        IN /\ \A k \in 0..(s - 1) :
                 (/\ IsDocBlock(lines, k, s - 1)
                  /\ \A j \in (k + 1)..(s - 1) :
                        \/ Trim(lines[j + 1]) = <<>>
                        \/ StartsWith(Trim(lines[j + 1]), STAR))
                 => /\ functions[1].isDocumented
                    /\ functions[1].cleanedDoc =
                          Defined(Join(TrimmedNonBlank(SubSeq(lines, k + 1, s))))
                    /\ documentedFunctions =
                          <<[name |-> functions[1].name,
                             documentation |-> functions[1].cleanedDoc[1],
                             filePath |-> source.filePath]>>
           /\ source = DoubleBelow(ExampleAbove) =>
                 functions[1].cleanedDoc = Defined(ExampleDocTrimmed)

C9_Witness ==
    /\ pc = "extracted"
    /\ source = DoubleBelow(ExampleAbove)
    /\ Len(functions) = 1
    /\ functions[1].isDocumented
    /\ functions[1].cleanedDoc = Defined(ExampleDocTrimmed)
    /\ Len(documentedFunctions) = 1

\* The line the upward scan from line s - 1 stops at (counted from 0): the
\* nearest line above the function that is not blank and does not begin, once
\* trimmed, with *; -1 when the scan runs off the top of the file.
RECURSIVE StopLine(_, _)
StopLine(lines, l) ==
    IF l < 0 THEN -1
    ELSE IF Trim(lines[l + 1]) = <<>> \/ StartsWith(Trim(lines[l + 1]), STAR)
    THEN StopLine(lines, l - 1)
    ELSE l

\* C19: the fallback engine reports a function documented only if the upward
\* scan reached a line that begins with the opener /**, which is then the
\* first line of the text it collected; when the scan stops at a line that is
\* no continuation line, no closer and not that opener, the function is
\* reported not documented.
C19_OpenerReached ==
    (pc = "extracted" /\ Len(functions) = 1) =>
        LET lines == Split(source.sourceCode)
            stop == StopLine(lines, functions[1].startLine - 1)
            opener == stop >= 0 /\ StartsWith(Trim(lines[stop + 1]), DOCOPEN)
        IN /\ functions[1].isDocumented =>
                 /\ opener
                 /\ StartsWith(functions[1].cleanedDoc[1], DOCOPEN)
           /\ (stop >= 0 /\ ~opener) => ~functions[1].isDocumented

----------------------------------------------------------------------------
(* Claims about the records of one file *)

IsJsSource == "ast" \in DOMAIN source

\* The source function a record stands for: for the fallback engine the
\* function its node denotes, for the tree engine its function node.
FnOfRecord(r) ==
    IF IsJsSource
    THEN (CHOOSE n \in NodesOf(source.ast) : n.nid = r.node).fn
    ELSE r.node

\* C1: the records returned for a file by either engine hold no two records
\* with the same (name, startLine).
C1_NoDuplicateKey ==
    pc = "extracted" =>
        \A i, j \in DOMAIN functions :
            (functions[i].name = functions[j].name
                /\ functions[i].startLine = functions[j].startLine) => i = j

\* C2: for every function found documented exactly one entry with its (name,
\* filePath) is appended to documentedFunctions: the entries with that name and
\* path are as many as the documented source functions of that name.
C2_ExactlyOneEntry ==
    pc = "extracted" =>
        \A i \in DOMAIN functions :
            functions[i].isDocumented =>
                Cardinality({e \in DOMAIN documentedFunctions :
                                /\ documentedFunctions[e].name = functions[i].name
                                /\ documentedFunctions[e].filePath = functions[i].filePath})
                  = Cardinality({FnOfRecord(functions[j]) : j \in
                                    {j \in DOMAIN functions :
                                        /\ functions[j].isDocumented
                                        /\ functions[j].name = functions[i].name}})

\* C8: a Python function whose body starts with a string literal is emitted
\* documented, and one whose body does not start with a string literal (and
\* that has no comment above it) is emitted undocumented.
C8_DocstringFirst ==
    (pc = "extracted" /\ ~IsJsSource /\ source.filePath.ext = ".py") =>
        \A i \in DOMAIN functions :
            functions[i].isDocumented
                <=> source.items[functions[i].node].body[1].kind = "string"

\* The nodes of a file that are functions without a name: no id and no key name.
AnonymousNids ==
    IF IsJsSource
    THEN {n.nid : n \in {n \in NodesOf(source.ast) :
                            /\ n.type \in {"FunctionDeclaration", "FunctionExpression",
                                           "ArrowFunctionExpression", "MethodDefinition"}
                            /\ n.idName = Undefined /\ n.keyName = Undefined}}
    ELSE {}

\* C10: every record has a non-empty name, and no record is emitted for a
\* node without a name: a function expression, an arrow function or a
\* default-exported function without an id, a method whose key has no name.
C10_NamedOnly ==
    pc = "extracted" =>
        \A i \in DOMAIN functions :
            /\ functions[i].name # ""
            /\ functions[i].node \notin AnonymousNids

C10_Witness ==
    /\ pc = "extracted"
    /\ IsJsSource
    /\ Cardinality(AnonymousNids) >= 2
    /\ Len(functions) = 1
    /\ functions[1].name = "f"


----------------------------------------------------------------------------
(* generateDocs.ts: the documentation generated for one function *)

\* The keys of DOCUMENTATION_FORMATS.
DOCUMENTATION_FORMATS == {"ts", "js", "java", "py", "rs", "go"}

\* path.extname(func.filePath).slice(1)
FileExt(filePath) ==
    CASE filePath.ext = ".ts" -> "ts" [] filePath.ext = ".tsx" -> "tsx"
      [] filePath.ext = ".js" -> "js" [] filePath.ext = ".jsx" -> "jsx"
      [] filePath.ext = ".py" -> "py" [] filePath.ext = ".rs" -> "rs"
      [] filePath.ext = ".java" -> "java" [] filePath.ext = ".go" -> "go"
      [] OTHER -> ""

\* fileExt.replace("tsx", "ts")
LangKeyOf(filePath) ==
    IF FileExt(filePath) = "tsx" THEN "ts" ELSE FileExt(filePath)

\* The grave accent (U+0060), which a TLA+ string cannot hold, is the element
\* BACKTICK of a text.
BACKTICK == "U+0060"
FENCE == <<BACKTICK, BACKTICK, BACKTICK>>

\* The characters of [\w-].
WordChars ==
    {"a", "b", "c", "d", "e", "f", "g", "h", "i", "j", "k", "l", "m", "n", "o", "p",
     "q", "r", "s", "t", "u", "v", "w", "x", "y", "z",
     "A", "B", "C", "D", "E", "F", "G", "H", "I", "J", "K", "L", "M", "N", "O", "P",
     "Q", "R", "S", "T", "U", "V", "W", "X", "Y", "Z",
     "0", "1", "2", "3", "4", "5", "6", "7", "8", "9", "_", "-"}

RECURSIVE SkipWordChars(_)
SkipWordChars(s) ==
    IF s # <<>> /\ Head(s) \in WordChars THEN SkipWordChars(Tail(s)) ELSE s

SkipNewline(s) == IF s # <<>> /\ Head(s) = "\n" THEN Tail(s) ELSE s

\* response.replace of a fence, the word after it and one newline, or of a
\* newline and a fence, by the empty text, from left to right.
RECURSIVE StripFences(_)
StripFences(s) ==
    IF s = <<>> THEN <<>>
    ELSE IF StartsWith(s, FENCE)
    THEN StripFences(SkipNewline(SkipWordChars(Substring(s, 3))))
    ELSE IF StartsWith(s, <<"\n">> \o FENCE) THEN StripFences(Substring(s, 4))
    ELSE <<Head(s)>> \o StripFences(Tail(s))

Threw == [threw |-> TRUE, value |-> <<>>]
Returned(value) == [threw |-> FALSE, value |-> value]

\* The go case: each line that does not begin, once trimmed, with // gets "// "
\* in front.
GoLine(line) ==
    IF StartsWith(Trim(line), SLASH2) THEN line ELSE <<"/", "/", " ">> \o line

validateAndCleanResponse(response, langKey) ==
    LET cleaned == Trim(StripFences(response)) IN
    CASE langKey \in {"ts", "js", "java"} ->
            IF ~StartsWith(cleaned, DOCOPEN) \/ ~EndsWith(cleaned, BLOCKCLOSE)
            THEN Threw ELSE Returned(cleaned)
      [] langKey = "py" ->
            IF ~StartsWith(cleaned, TRIPLEQUOTE) \/ ~EndsWith(cleaned, TRIPLEQUOTE)
            THEN Threw ELSE Returned(cleaned)
      [] langKey = "rs" ->
            IF ~StartsWith(cleaned, SLASH3) THEN Threw ELSE Returned(cleaned)
      [] langKey = "go" ->
            IF ~StartsWith(cleaned, SLASH2) THEN Threw
            ELSE LET ls == Split(cleaned)
                 IN Returned(Join([i \in 1..Len(ls) |-> GoLine(ls[i])]))
      [] OTHER -> Returned(cleaned)

\* lines.splice(start, 0, item)
Splice(lines, start, item) ==
    LET at == IF start < Len(lines) THEN start ELSE Len(lines)
    IN SubSeq(lines, 1, at) \o <<item>> \o SubSeq(lines, at + 1, Len(lines))

\* The while loop over the blank lines below the def line; a line read past the
\* end of the file has no trim and the loop throws.
RECURSIVE SkipBlankLines(_, _, _)
SkipBlankLines(lines, insertLine, endLine) ==
    IF insertLine > endLine THEN Returned(insertLine)
    ELSE IF insertLine >= Len(lines) THEN Threw
    ELSE IF Trim(lines[insertLine + 1]) = <<>>
    THEN SkipBlankLines(lines, insertLine + 1, endLine)
    ELSE Returned(insertLine)

\* defLine.match(/^\s*/)[0]
RECURSIVE LeadingSpace(_)
LeadingSpace(s) ==
    IF s # <<>> /\ Head(s) \in WhiteSpace THEN <<Head(s)>> \o LeadingSpace(Tail(s))
    ELSE <<>>

\* The lines of the file with the documentation put in: below the def line for
\* Python, above the function's first line otherwise.
InsertDocumentation(lines, func, cleanedDoc, langKey) ==
    IF langKey = "py"
    THEN LET insertLine == SkipBlankLines(lines, func.startLine + 1, func.endLine) IN
         IF insertLine.threw \/ func.startLine >= Len(lines) THEN Threw
         ELSE LET indentation == LeadingSpace(lines[func.startLine + 1])
                  docLines == Split(cleanedDoc)
                  indentedDoc ==
                      Join([i \in 1..Len(docLines) |->
                               indentation \o <<" ", " ", " ", " ">> \o docLines[i]])
              IN Returned(Splice(lines, insertLine.value, indentedDoc))
    ELSE Returned(Splice(lines, func.startLine, cleanedDoc))


\* The task that takes a writeFile that rejects for a write.
DocumentTask_WriteUnchecked(func, docComment, io, fileContent, toReturn) ==
    LET langKey == LangKeyOf(func.filePath)
        failed(entries) ==
            [threw |-> TRUE, functionsToReturn |-> entries, fileContent |-> fileContent]
    IN IF langKey \notin DOCUMENTATION_FORMATS THEN failed(toReturn)
       ELSE IF docComment = Undefined \/ docComment[1] = <<>> THEN failed(toReturn)
       ELSE LET cleanedDoc == validateAndCleanResponse(docComment[1], langKey) IN
            IF cleanedDoc.threw THEN failed(toReturn)
            ELSE LET pushed == Append(toReturn,
                                      [filePath |-> func.filePath, name |-> func.name,
                                       documentation |-> cleanedDoc.value])
                     lines == InsertDocumentation(Split(fileContent), func,
                                                  cleanedDoc.value, langKey)
                 IN IF io = "read fails" \/ lines.threw
                    THEN failed(pushed)
                    ELSE [threw |-> FALSE, functionsToReturn |-> pushed,
                          fileContent |-> IF io = "write fails" THEN fileContent
                                          ELSE Join(lines.value)]

\* The body of one Listr task: what generateText answered (Undefined when it
\* rejects), and whether reading and writing the file succeed. The task pushes
\* the entry before it reads the file, and flags the function after it has
\* written it.
DocumentTask(func, docComment, io, fileContent, toReturn) ==
    LET langKey == LangKeyOf(func.filePath)
        failed(entries) ==
            [threw |-> TRUE, functionsToReturn |-> entries, fileContent |-> fileContent]
    IN IF langKey \notin DOCUMENTATION_FORMATS THEN failed(toReturn)
       ELSE IF docComment = Undefined \/ docComment[1] = <<>> THEN failed(toReturn)
       ELSE LET cleanedDoc == validateAndCleanResponse(docComment[1], langKey) IN
            IF cleanedDoc.threw THEN failed(toReturn)
            ELSE LET pushed == Append(toReturn,
                                      [filePath |-> func.filePath, name |-> func.name,
                                       documentation |-> cleanedDoc.value])
                     lines == InsertDocumentation(Split(fileContent), func,
                                                  cleanedDoc.value, langKey)
                 IN IF io = "read fails" \/ lines.threw \/ io = "write fails"
                    THEN failed(pushed)
                    ELSE [threw |-> FALSE, functionsToReturn |-> pushed,
                          fileContent |-> Join(lines.value)]

\* undocumentedFunctions.sort((a, b) => b.startLine - a.startLine), on the
\* indexes of the records in functions: descending, equal lines keep their order.
RECURSIVE InsertDescending(_, _, _)
InsertDescending(sorted, i, fs) ==
    IF sorted = <<>> THEN <<i>>
    ELSE IF fs[Head(sorted)].startLine >= fs[i].startLine
    THEN <<Head(sorted)>> \o InsertDescending(Tail(sorted), i, fs)
    ELSE <<i>> \o sorted

\* The records left in the order the loop of parseAndDocument pushed them.
SortDescending_Unsorted(indexes, fs) == indexes

RECURSIVE SortDescending(_, _)
SortDescending(indexes, fs) ==
    IF indexes = <<>> THEN <<>>
    ELSE InsertDescending(SortDescending(SubSeq(indexes, 1, Len(indexes) - 1), fs),
                          indexes[Len(indexes)], fs)

\* The loop handing every record on, documented or not.
Undocumented_All(fs) == [i \in DOMAIN fs |-> i]

\* The loop of parseAndDocument over functions: the undocumented ones.
Undocumented(fs) == SelectSeq([i \in DOMAIN fs |-> i], LAMBDA i : ~fs[i].isDocumented)

----------------------------------------------------------------------------
(* The files of a scan *)

\* A scan takes at most MaxFiles files.
MaxFiles == 3

WithPath(file, stem) == [file EXCEPT !.filePath = Path(stem, file.filePath.ext)]

\* a.py: f with a docstring and g without.
FilePy ==
    WithPath(TreeFile("python", <<Item("f", <<>>, <<PyTriple>>, FALSE),
                                  Item("g", <<>>, <<PyPass>>, FALSE)>>), "a")

\* b.ts: f below a JSDoc comment and g without.
FileTs ==
    WithPath(JsFile(".ts", <<[above |-> <<LineDocOne>>, shape |-> "function f"],
                             [above |-> <<>>, shape |-> "function g"]>>), "b")

\* c.go: f below a TODO comment.
FileGo == WithPath(TreeFile("go", <<Item("f", <<GoTodo>>, <<>>, FALSE)>>), "c")

\* d.md: a file of no supported language.
FileMd == [filePath |-> Path("d", ".md"), sourceCode |-> <<"#">>]

\* e.PY: Python text under an extension in capitals.
FileUpper ==
    [TreeFile("python", <<Item("f", <<>>, <<PyTriple>>, FALSE)>>)
        EXCEPT !.filePath = Path("e", ".PY")]

Catalog == {FilePy, FileTs, FileGo, FileMd, FileUpper}

FileAt(filePath) == CHOOSE file \in Catalog : file.filePath = filePath

\* What glob hands to findFiles: distinct paths, in any order.
FileLists ==
    {list \in UNION {[1..n -> {file.filePath : file \in Catalog}] : n \in 0..MaxFiles} :
        \A i, j \in DOMAIN list : list[i] = list[j] => i = j}

\* What generateText may answer for a language: a comment of the format asked
\* for, the same between fences, a text of no format, and nothing.
DocFor(langKey) ==
    CASE langKey = "py" -> <<"\"", "\"", "\"", "n", "\"", "\"", "\"">>
      [] langKey = "rs" -> <<"/", "/", "/", " ", "n">>
      [] langKey = "go" -> <<"/", "/", " ", "n">>
      [] OTHER -> <<"/", "*", "*", " ", "n", " ", "*", "/">>

Responses(langKey) ==
    {Undefined,
     Defined(DocFor(langKey)),
     Defined(FENCE \o <<"t", "s", "\n">> \o DocFor(langKey) \o <<"\n">> \o FENCE),
     Defined(<<"n">>),
     Defined(<<>>)}

IoOutcomes == {"ok", "read fails", "write fails"}


----------------------------------------------------------------------------
(* parser.ts: processFile and the loop of parseAndDocument *)

\* The steps of processing one file that can throw, in the order they run.
\* processJavaScriptFile builds the ESLint instance and imports the parser
\* (setup), reads the file, lints it and parses it; processFile reads the file,
\* parses it and builds and runs the query.
StepsOf(engine) ==
    IF engine = "processJavaScriptFile" THEN {"setup", "read", "lint", "parse"}
    ELSE {"read", "parse", "query"}

\* The steps the engine's try block holds.
InsideTry_ReadOnly(engine, step) == step = "read"

InsideTry(engine, step) ==
    IF engine = "processJavaScriptFile" THEN step \in {"read", "lint", "parse"}
    ELSE step \in {"read", "parse", "query"}

ErrorProcessing(filePath) ==
    [message |-> "Error processing", path |-> RelativePath(filePath)]

ParserError(filePath) == [message |-> "Parser error", path |-> RelativePath(filePath)]

FailedToGenerate(func) ==
    [message |-> "Failed to generate docs for", path |-> RelativePath(func.filePath)]

\* What a call of an engine comes to when step `failing` throws ("none": no
\* step does): the exception leaves the engine, or the engine logs it and
\* returns no record.
Failure(engine, file, failing, documentedArg, consoleArg) ==
    IF InsideTry(engine, failing)
    THEN [threw |-> FALSE, functions |-> <<>>, documentedFunctions |-> documentedArg,
          console |-> consoleArg \cup {ErrorProcessing(file.filePath)}]
    ELSE [threw |-> TRUE, functions |-> <<>>, documentedFunctions |-> documentedArg,
          console |-> consoleArg]

\* lintText answers with no result for a file ESLint ignores (linted = FALSE):
\* the file is not parsed.
processJavaScriptFile(file, failing, linted, documentedArg, consoleArg) ==
    IF failing # "none"
    THEN Failure("processJavaScriptFile", file, failing, documentedArg, consoleArg)
    ELSE IF ~linted
    THEN [threw |-> FALSE, functions |-> <<>>, documentedFunctions |-> documentedArg,
          console |-> consoleArg]
    ELSE LET out == processJavaScriptAST(file.ast, file.sourceCode, file.filePath,
                                         <<>>, documentedArg)
         IN [threw |-> FALSE, functions |-> out.functions,
             documentedFunctions |-> out.documentedFunctions, console |-> consoleArg]

processFile(file, failing, matches, documentedArg, consoleArg) ==
    IF failing # "none"
    THEN Failure("processFile", file, failing, documentedArg, consoleArg)
    ELSE IF matches = <<>>
    THEN [threw |-> FALSE, functions |-> <<>>, documentedFunctions |-> documentedArg,
          console |-> consoleArg]
    ELSE LET out == processMatchesAndCollect(matches, file.filePath, file.sourceCode,
                                             <<>>, documentedArg)
         IN [threw |-> FALSE, functions |-> out.functions,
             documentedFunctions |-> out.documentedFunctions, console |-> consoleArg]

\* documentedFunctions.push(...returnedFunctions)
PushAll_Unshift(array, items) == items \o array

PushAll(array, items) == array \o items

Init ==
    /\ pc = "scan"
    /\ files \in FileLists
    /\ cursor = 0
    /\ disk = [filePath \in {files[i] : i \in DOMAIN files} |-> FileAt(filePath).sourceCode]
    /\ source = NoSource
    /\ functions = <<>>
    /\ documentedFunctions = <<>>
    /\ tasks = <<>>
    /\ functionsToReturn = <<>>
    /\ console = {}
    /\ processed = <<>>
    /\ running = <<>>
    /\ cli = NoCli
    /\ commentText = <<>>
    /\ language = NoLanguage
    /\ validation = NotCalled

\* The file the loop takes next, with the text it has on disk.
NextFile == [FileAt(files[cursor + 1]) EXCEPT !.sourceCode = disk[files[cursor + 1]]]

\* One turn of the loop from processFile's answer on: an exception ends the
\* loop in the catch of parseAndDocument; otherwise generateDocs is called with
\* the undocumented records.
Iteration(file, failing, out) ==
    /\ cursor' = cursor + 1
    /\ source' = file
    /\ processed' = Append(processed, [filePath |-> file.filePath, failing |-> failing,
                                       threw |-> out.threw, records |-> out.functions])
    /\ functions' = out.functions
    /\ documentedFunctions' = out.documentedFunctions
    /\ functionsToReturn' = <<>>
    /\ IF out.threw
       THEN /\ console' = out.console \cup {ParserError(file.filePath)}
            /\ tasks' = <<>>
            /\ pc' = "confirm"
       ELSE /\ console' = out.console
            /\ tasks' = SortDescending(Undocumented(out.functions), out.functions)
            /\ pc' = "generate"
    /\ UNCHANGED <<files, disk, running, cli, commentText, language, validation>>

\* if (!language) continue
SkipFile ==
    /\ pc = "scan"
    /\ cursor < Len(files)
    /\ getLanguageForFile(files[cursor + 1]) = NoLanguage
    /\ cursor' = cursor + 1
    /\ processed' = Append(processed, [filePath |-> files[cursor + 1], failing |-> "skipped",
                                       threw |-> FALSE, records |-> <<>>])
    /\ UNCHANGED <<pc, source, functions, documentedFunctions, files, tasks,
                   functionsToReturn, disk, console, running, cli, commentText, language, validation>>

ProcessJavaScriptFile ==
    /\ pc = "scan"
    /\ cursor < Len(files)
    /\ getLanguageForFile(files[cursor + 1]) \in {"js", "ts"}
    /\ \E failing \in StepsOf("processJavaScriptFile") \cup {"none"}, linted \in BOOLEAN :
          /\ failing # "none" => linted
          /\ Iteration(NextFile, IF linted THEN failing ELSE "ignored",
                       processJavaScriptFile(NextFile, failing, linted,
                                             documentedFunctions, console))

ProcessTreeFile ==
    /\ pc = "scan"
    /\ cursor < Len(files)
    /\ getLanguageForFile(files[cursor + 1]) \in TreeLanguages
    /\ \E failing \in StepsOf("processFile") \cup {"none"},
          matches \in QueryMatchOrders(getLanguageForFile(files[cursor + 1]),
                                       NextFile.items) :
          Iteration(NextFile, failing,
                    processFile(NextFile, failing, matches, documentedFunctions, console))

\* One task of generateDocs, the tasks running one after the other; a task that
\* throws ends the run, which generateDocs catches and logs.
RunTask ==
    /\ pc = "generate"
    /\ tasks # <<>>
    /\ LET func == functions[Head(tasks)] IN
       \E docComment \in Responses(LangKeyOf(func.filePath)), io \in IoOutcomes :
          LET out == DocumentTask(func, docComment, io, disk[func.filePath],
                                  functionsToReturn)
          IN /\ functionsToReturn' = out.functionsToReturn
             /\ disk' = [disk EXCEPT ![func.filePath] = out.fileContent]
             /\ IF out.threw
                THEN /\ tasks' = <<>>
                     /\ console' = console \cup {FailedToGenerate(func)}
                     /\ UNCHANGED functions
                ELSE /\ tasks' = Tail(tasks)
                     /\ functions' = [functions EXCEPT ![Head(tasks)].isDocumented = TRUE]
                     /\ UNCHANGED console
    /\ UNCHANGED <<pc, source, documentedFunctions, files, cursor, processed,
                   running, cli, commentText, language, validation>>

\* generateDocs returns functionsToReturn and the loop pushes its entries.
ReturnDocs ==
    /\ pc = "generate"
    /\ tasks = <<>>
    /\ documentedFunctions' = PushAll(documentedFunctions, functionsToReturn)
    /\ pc' = "scan"
    /\ UNCHANGED <<source, functions, files, cursor, tasks, functionsToReturn, disk,
                   console, processed, running, cli, commentText, language, validation>>

\* findFiles has no file left.
EndOfFiles ==
    /\ pc = "scan"
    /\ cursor = Len(files)
    /\ pc' = "confirm"
    /\ UNCHANGED <<source, functions, documentedFunctions, files, cursor, tasks,
                   functionsToReturn, disk, console, processed, running, cli, commentText, language,
                   validation>>

\* The prompt after the loop, outside the try: an answer ends parseAndDocument
\* (generateReadme reads documentedFunctions for "yes"); a prompt that rejects
\* is raised to the caller.
Confirm ==
    /\ pc = "confirm"
    /\ \E answer \in {"yes", "no", "rejected"} :
          pc' = IF answer = "rejected" THEN "raised" ELSE "done"
    /\ UNCHANGED <<source, functions, documentedFunctions, files, cursor, tasks,
                   functionsToReturn, disk, console, processed, running, cli, commentText, language,
                   validation>>

Next ==
    \/ SkipFile
    \/ ProcessJavaScriptFile
    \/ ProcessTreeFile
    \/ RunTask
    \/ ReturnDocs
    \/ EndOfFiles
    \/ Confirm

Spec == Init /\ [][Next]_vars


----------------------------------------------------------------------------
(* generateDocs.ts: the tasks of one file under options.concurrent *)

\* A file hands generateDocs at most MaxTasks undocumented functions.
MaxTasks == 2

FunctionNames == <<"f", "g", "h", "k", "m", "n">>

\* A Go file of n functions without comments, and a Python file of n functions
\* whose bodies hold a pass statement.
PlainItems(lang, n) ==
    [i \in 1..n |-> Item(FunctionNames[i], <<>>,
                         IF lang = "python" THEN <<PyPass>> ELSE <<>>, FALSE)]

ConcurrentFiles ==
    {TreeFile(lang, PlainItems(lang, n)) : lang \in {"go", "python"}, n \in 1..MaxTasks}

\* What generateText answers for a function: a comment of the format asked for
\* that names the function, or nothing.
DocNaming(langKey, name) ==
    IF langKey = "py" THEN <<"\"", "\"", "\"", name, "\"", "\"", "\"">>
    ELSE <<"/", "/", " ", name>>

\* A task that has not reached the splice holds no text.
NoText == <<>>

TaskAt(i, stage, doc, content) ==
    [func |-> i, stage |-> stage, documentation |-> doc, fileContent |-> content]

\* generateDocs is called with the undocumented records of a file that
\* processFile has just read.
InitConcurrent ==
    /\ pc = "generate"
    /\ source \in ConcurrentFiles
    /\ \E matches \in QueryMatchOrders(getLanguageForFile(source.filePath), source.items) :
          LET out == processFile(source, "none", matches, <<>>, {}) IN
             /\ functions = out.functions
             /\ documentedFunctions = out.documentedFunctions
             /\ tasks = SortDescending(Undocumented(out.functions), out.functions)
    /\ files = <<source.filePath>>
    /\ cursor = 1
    /\ disk = [filePath \in {source.filePath} |-> source.sourceCode]
    /\ functionsToReturn = <<>>
    /\ console = {}
    /\ processed = <<>>
    /\ running = <<>>
    /\ cli = NoCli
    /\ commentText = <<>>
    /\ language = NoLanguage
    /\ validation = NotCalled

\* task.run() with concurrent: true: every task is started and runs up to its
\* first await, the call of generateText.
RunConcurrently ==
    /\ pc = "generate"
    /\ running = <<>>
    /\ tasks # <<>>
    /\ running' = [k \in DOMAIN tasks |-> TaskAt(tasks[k], "generateText", NoText, NoText)]
    /\ pc' = "running"
    /\ UNCHANGED <<source, functions, documentedFunctions, files, cursor, tasks,
                   functionsToReturn, disk, console, processed, cli, commentText, language,
                   validation>>

\* generateText settles for task k: the answer is validated, the entry pushed
\* and readFile called.
GenerateText(k) ==
    /\ running[k].stage = "generateText"
    /\ LET func == functions[running[k].func]
           langKey == LangKeyOf(func.filePath)
       IN \E docComment \in {Undefined, Defined(DocNaming(langKey, func.name))} :
             IF docComment = Undefined
             THEN /\ running' = [running EXCEPT ![k].stage = "failed"]
                  /\ UNCHANGED functionsToReturn
             ELSE LET cleanedDoc == validateAndCleanResponse(docComment[1], langKey) IN
                  IF cleanedDoc.threw
                  THEN /\ running' = [running EXCEPT ![k].stage = "failed"]
                       /\ UNCHANGED functionsToReturn
                  ELSE /\ functionsToReturn' =
                             Append(functionsToReturn,
                                    [filePath |-> func.filePath, name |-> func.name,
                                     documentation |-> cleanedDoc.value])
                       /\ running' = [running EXCEPT ![k] =
                                         TaskAt(running[k].func, "readFile",
                                                cleanedDoc.value, NoText)]
    /\ UNCHANGED <<pc, source, functions, documentedFunctions, files, cursor, tasks, disk,
                   console, processed, cli, commentText, language, validation>>

\* readFile settles for task k with the text the file has at that moment; the
\* comment is spliced into the lines of that text and writeFile called with them.
ReadFile(k) ==
    /\ running[k].stage = "readFile"
    /\ LET func == functions[running[k].func]
           lines == InsertDocumentation(Split(disk[func.filePath]), func,
                                        running[k].documentation, LangKeyOf(func.filePath))
       IN \E io \in {"ok", "read fails"} :
             IF io = "read fails" \/ lines.threw
             THEN running' = [running EXCEPT ![k].stage = "failed"]
             ELSE running' = [running EXCEPT ![k].stage = "writeFile",
                                             ![k].fileContent = Join(lines.value)]
    /\ UNCHANGED <<pc, source, functions, documentedFunctions, files, cursor, tasks,
                   functionsToReturn, disk, console, processed, cli, commentText, language,
                   validation>>

\* writeFile of task k replaces the text of the file.
WriteFile(k) ==
    /\ running[k].stage = "writeFile"
    /\ \E io \in {"ok", "write fails"} :
          IF io = "write fails"
          THEN /\ running' = [running EXCEPT ![k].stage = "failed"]
               /\ UNCHANGED disk
          ELSE /\ disk' = [disk EXCEPT ![functions[running[k].func].filePath] =
                                          running[k].fileContent]
               /\ running' = [running EXCEPT ![k].stage = "written"]
    /\ UNCHANGED <<pc, source, functions, documentedFunctions, files, cursor, tasks,
                   functionsToReturn, console, processed, cli, commentText, language, validation>>

\* func.isDocumented = true, and the task is over.
FlagDocumented(k) ==
    /\ running[k].stage = "written"
    /\ functions' = [functions EXCEPT ![running[k].func].isDocumented = TRUE]
    /\ running' = [running EXCEPT ![k].stage = "completed"]
    /\ UNCHANGED <<pc, source, documentedFunctions, files, cursor, tasks, functionsToReturn,
                   disk, console, processed, cli, commentText, language, validation>>

AllCompleted ==
    running # <<>> /\ \A k \in DOMAIN running : running[k].stage = "completed"

\* await task.run() settles: every task is over, or one has thrown, which
\* generateDocs logs; the tasks still under way run on.
ReturnConcurrent ==
    /\ pc = "running"
    /\ \/ /\ AllCompleted
          /\ UNCHANGED console
       \/ \E k \in DOMAIN running :
             /\ running[k].stage = "failed"
             /\ console' = console \cup {FailedToGenerate(functions[running[k].func])}
    /\ pc' = "returned"
    /\ UNCHANGED <<source, functions, documentedFunctions, files, cursor, tasks,
                   functionsToReturn, disk, processed, running, cli, commentText, language,
                   validation>>

NextConcurrent ==
    \/ RunConcurrently
    \/ \E k \in DOMAIN running : GenerateText(k)
    \/ \E k \in DOMAIN running : ReadFile(k)
    \/ \E k \in DOMAIN running : WriteFile(k)
    \/ \E k \in DOMAIN running : FlagDocumented(k)
    \/ ReturnConcurrent

SpecConcurrent == InitConcurrent /\ [][NextConcurrent]_vars

----------------------------------------------------------------------------
(* index.ts and config.ts: main, validateGitState and the scan *)

RevParse == "git rev-parse --is-inside-work-tree"
StatusPorcelain == "git status --porcelain"
AddAll == "git add ."
DiffCached == "git diff --cached --name-only"
CommitDocs == "git commit -m docs: documented with reppy"

UncommittedChanges == [message |-> "There are uncommitted changes", path |-> ""]
NotARepository == [message |-> "Not a git repository", path |-> ""]
InvalidOptions == [message |-> "Invalid options", path |-> ""]
PromptRejected == [message |-> "Prompt rejected", path |-> ""]

\* The directory main runs in: a work tree with nothing to commit, a work tree
\* with uncommitted changes, or no repository.
WorkTrees == {"clean", "uncommitted changes", "no repository"}

\* validateGitState with the status test left out.
validateGitState_NoStatusTest(unsafe, workTree) ==
    IF unsafe THEN [threw |-> FALSE, error |-> NotARepository, executed |-> <<>>]
    ELSE IF workTree = "no repository"
    THEN [threw |-> TRUE, error |-> NotARepository, executed |-> <<RevParse>>]
    ELSE [threw |-> FALSE, error |-> NotARepository,
          executed |-> <<RevParse, StatusPorcelain>>]

\* validateGitState: nothing is run under options.unsafe; otherwise rev-parse
\* fails outside a repository, which the catch turns into "Not a git
\* repository", and a status that is not empty throws "uncommitted changes",
\* which the catch throws on. error is read only when threw is TRUE.
validateGitState(unsafe, workTree) ==
    IF unsafe THEN [threw |-> FALSE, error |-> NotARepository, executed |-> <<>>]
    ELSE IF workTree = "no repository"
    THEN [threw |-> TRUE, error |-> NotARepository, executed |-> <<RevParse>>]
    ELSE IF workTree = "uncommitted changes"
    THEN [threw |-> TRUE, error |-> UncommittedChanges,
          executed |-> <<RevParse, StatusPorcelain>>]
    ELSE [threw |-> FALSE, error |-> NotARepository,
          executed |-> <<RevParse, StatusPorcelain>>]

\* The files main is run on: at most one of the catalog.
MainFileLists == {list \in FileLists : Len(list) <= 1}

\* The text the files of the scan had when main started.
OriginalDisk == [filePath \in DOMAIN disk |-> FileAt(filePath).sourceCode]

InitMain ==
    /\ pc = "main"
    /\ \E unsafe \in BOOLEAN, workTree \in WorkTrees :
          cli = [unsafe |-> unsafe, workTree |-> workTree, executed |-> <<>>,
                 exitCode |-> Undefined]
    /\ files \in MainFileLists
    /\ cursor = 0
    /\ disk = [filePath \in {files[i] : i \in DOMAIN files} |-> FileAt(filePath).sourceCode]
    /\ source = NoSource
    /\ functions = <<>>
    /\ documentedFunctions = <<>>
    /\ tasks = <<>>
    /\ functionsToReturn = <<>>
    /\ console = {}
    /\ processed = <<>>
    /\ running = <<>>
    /\ commentText = <<>>
    /\ language = NoLanguage
    /\ validation = NotCalled

\* parseCliOptions: the options, the help text and exit code 0, or an
\* exception that the catch of main reports before it exits with code 1.
ParseCliOptions ==
    /\ pc = "main"
    /\ \E outcome \in {"options", "help", "invalid"} :
          CASE outcome = "options" -> pc' = "validateGitState" /\ UNCHANGED <<cli, console>>
            [] outcome = "help" ->
                  /\ pc' = "exited"
                  /\ cli' = [cli EXCEPT !.exitCode = Defined(0)]
                  /\ UNCHANGED console
            [] outcome = "invalid" ->
                  /\ pc' = "exited"
                  /\ cli' = [cli EXCEPT !.exitCode = Defined(1)]
                  /\ console' = console \cup {InvalidOptions}
    /\ UNCHANGED <<source, functions, documentedFunctions, files, cursor, tasks,
                   functionsToReturn, disk, processed, running, commentText, language,
                   validation>>

\* validateGitState(options), and parseAndDocument when it returns; what it
\* throws is reported by the catch of main, which exits with code 1.
ValidateGitState ==
    /\ pc = "validateGitState"
    /\ LET out == validateGitState(cli.unsafe, cli.workTree) IN
          IF out.threw
          THEN /\ pc' = "exited"
               /\ cli' = [cli EXCEPT !.executed = cli.executed \o out.executed,
                                     !.exitCode = Defined(1)]
               /\ console' = console \cup {out.error}
          ELSE /\ pc' = "scan"
               /\ cli' = [cli EXCEPT !.executed = cli.executed \o out.executed]
               /\ UNCHANGED console
    /\ UNCHANGED <<source, functions, documentedFunctions, files, cursor, tasks,
                   functionsToReturn, disk, processed, running, commentText, language,
                   validation>>

\* parseAndDocument has returned: commitDocumentationChanges unless
\* options.unsafe, which commits when git status reports a change.
CommitDocumentationChanges ==
    /\ pc = "done"
    /\ pc' = "exited"
    /\ cli' = [cli EXCEPT
                  !.executed =
                      IF cli.unsafe THEN cli.executed
                      ELSE IF disk = OriginalDisk THEN cli.executed \o <<StatusPorcelain>>
                      ELSE cli.executed
                               \o <<StatusPorcelain, AddAll, DiffCached, CommitDocs>>,
                  !.exitCode = Defined(0)]
    /\ UNCHANGED <<source, functions, documentedFunctions, files, cursor, tasks,
                   functionsToReturn, disk, console, processed, running, commentText,
                   language, validation>>

\* parseAndDocument has thrown: the catch of main.
CatchInMain ==
    /\ pc = "raised"
    /\ pc' = "exited"
    /\ cli' = [cli EXCEPT !.exitCode = Defined(1)]
    /\ console' = console \cup {PromptRejected}
    /\ UNCHANGED <<source, functions, documentedFunctions, files, cursor, tasks,
                   functionsToReturn, disk, processed, running, commentText, language,
                   validation>>

NextMain ==
    \/ ParseCliOptions
    \/ ValidateGitState
    \/ SkipFile
    \/ ProcessJavaScriptFile
    \/ ProcessTreeFile
    \/ RunTask
    \/ ReturnDocs
    \/ EndOfFiles
    \/ Confirm
    \/ CommitDocumentationChanges
    \/ CatchInMain

SpecMain == InitMain /\ [][NextMain]_vars

----------------------------------------------------------------------------
(* generateDocs.ts: the tasks of one file of any layout, one after the other *)

\* The layouts of a function in a file. A Python function: a def line and its
\* body, a header of three lines, a function of one line, a body below a
\* blank line, and a function with a function in its body. A function of a
\* language with braces: a block, a function of one line, a function with a
\* function in its body, and both of them on one line.
ShapesFor(ext) ==
    CASE ext = ".py" ->
            {"block", "header of three lines", "one line", "blank line first", "nested"}
      [] ext \in {".go", ".java"} -> {"block", "one line"}
      [] OTHER -> {"block", "one line", "nested", "same line"}

\* The keyword a declaration of the language starts with.
Keyword(ext) ==
    CASE ext = ".py" -> <<"d", "e", "f">>
      [] ext = ".go" -> <<"f", "u", "n", "c">>
      [] ext = ".rs" -> <<"f", "n">>
      [] ext = ".java" -> <<"v", "o", "i", "d">>
      [] OTHER -> <<"f", "u", "n", "c", "t", "i", "o", "n">>

\* The lines of a layout whose functions are named n and m.
ShapeLines(ext, shape, n, m) ==
    LET kw == Keyword(ext) \o <<" ">> IN
    IF ext = ".py"
    THEN CASE shape = "block" ->
                 <<kw \o <<n, "(", ")", ":">>, <<" ", " ", "p", "a", "s", "s">>>>
           [] shape = "header of three lines" ->
                 <<kw \o <<n, "(">>, <<" ", " ", "a">>, <<")", ":">>,
                   <<" ", " ", "p", "a", "s", "s">>>>
           [] shape = "one line" ->
                 <<kw \o <<n, "(", ")", ":", " ", "p", "a", "s", "s">>>>
           [] shape = "blank line first" ->
                 <<kw \o <<n, "(", ")", ":">>, <<>>, <<" ", " ", "p", "a", "s", "s">>>>
           [] shape = "nested" ->
                 <<kw \o <<n, "(", ")", ":">>,
                   <<" ", " ">> \o kw \o <<m, "(", ")", ":">>,
                   <<" ", " ", " ", " ", "p", "a", "s", "s">>>>
    ELSE CASE shape = "block" -> <<kw \o <<n, "(", ")", " ", "{">>, <<"}">>>>
           [] shape = "one line" -> <<kw \o <<n, "(", ")", " ", "{", "}">>>>
           [] shape = "nested" ->
                 <<kw \o <<n, "(", ")", " ", "{">>,
                   <<" ", " ">> \o kw \o <<m, "(", ")", " ", "{", "}">>,
                   <<"}">>>>
           [] shape = "same line" ->
                 <<kw \o <<n, "(", ")", " ", "{", " ">> \o kw
                      \o <<m, "(", ")", " ", "{", "}", " ", "}">>>>

\* The functions of a layout as the parser reports them, outer before inner:
\* the name, the first and the last line of the function node, and, for the
\* claims, the last line of the header and the first line of the body
\* (counted from the first line of the layout; body is -1 when the body has
\* no line of its own).
ShapeSpans(ext, shape, n, m) ==
    LET span(name, start, end, header, body) ==
            [name |-> name, start |-> start, end |-> end, header |-> header, body |-> body]
    IN CASE shape = "block" -> <<span(n, 0, 1, 0, IF ext = ".py" THEN 1 ELSE -1)>>
         [] shape = "header of three lines" -> <<span(n, 0, 3, 2, 3)>>
         [] shape = "one line" -> <<span(n, 0, 0, 0, -1)>>
         [] shape = "blank line first" -> <<span(n, 0, 2, 0, 2)>>
         [] shape = "nested" ->
               IF ext = ".py" THEN <<span(n, 0, 2, 0, 1), span(m, 1, 2, 1, 2)>>
               ELSE <<span(n, 0, 2, 0, 1), span(m, 1, 1, 1, -1)>>
         [] shape = "same line" -> <<span(n, 0, 0, 0, -1), span(m, 0, 0, 0, -1)>>

\* A file of the layouts `shapes`, one below the other, and the spans of its
\* functions counted from the first line of the file.
RECURSIVE LayoutLines(_, _, _)
LayoutLines(ext, shapes, c) ==
    IF c > Len(shapes) THEN <<>>
    ELSE ShapeLines(ext, shapes[c], FunctionNames[2 * c - 1], FunctionNames[2 * c])
            \o LayoutLines(ext, shapes, c + 1)

RECURSIVE LayoutSpans(_, _, _, _)
LayoutSpans(ext, shapes, c, row) ==
    IF c > Len(shapes) THEN <<>>
    ELSE LET n == FunctionNames[2 * c - 1]
             m == FunctionNames[2 * c]
             spans == ShapeSpans(ext, shapes[c], n, m)
         IN [j \in DOMAIN spans |->
                [spans[j] EXCEPT !.start = row + spans[j].start,
                                 !.end = row + spans[j].end,
                                 !.header = row + spans[j].header,
                                 !.body = IF spans[j].body < 0 THEN -1
                                          ELSE row + spans[j].body]]
               \o LayoutSpans(ext, shapes, c + 1,
                              row + Len(ShapeLines(ext, shapes[c], n, m)))

LayoutFile(ext, shapes) ==
    [filePath |-> Path("a", ext),
     sourceCode |-> Join(LayoutLines(ext, shapes, 1)),
     spans |-> LayoutSpans(ext, shapes, 1, 0)]

LayoutFiles ==
    UNION {{LayoutFile(ext, shapes) :
               shapes \in UNION {[1..n -> ShapesFor(ext)] : n \in 1..MaxStmts}} :
           ext \in RegistryExtensions}

\* The records processFile returns for a file none of whose functions has a
\* comment.
RecordsOf(file) ==
    [j \in DOMAIN file.spans |->
        [name |-> file.spans[j].name,
         node |-> j,
         filePath |-> file.filePath,
         startLine |-> file.spans[j].start,
         endLine |-> file.spans[j].end,
         sourceCode |-> SliceLines(file.sourceCode, file.spans[j].start, file.spans[j].end),
         isDocumented |-> FALSE,
         cleanedDoc |-> Undefined]]

\* What generateText may answer for a function: a comment of the format
\* asked for that names the function, on one line or on two, or nothing.
NamedResponses(langKey, name) ==
    {Undefined}
        \cup (CASE langKey = "py" ->
                     {Defined(TRIPLEQUOTE \o <<name>> \o TRIPLEQUOTE),
                      Defined(TRIPLEQUOTE \o <<name, "\n", "x">> \o TRIPLEQUOTE)}
                [] langKey = "rs" ->
                     {Defined(SLASH3 \o <<" ", name>>),
                      Defined(SLASH3 \o <<" ", name, "\n">> \o SLASH3 \o <<" ", "x">>)}
                [] langKey = "go" ->
                     {Defined(SLASH2 \o <<" ", name>>),
                      Defined(SLASH2 \o <<" ", name, "\n">> \o SLASH2 \o <<" ", "x">>)}
                [] OTHER ->
                     {Defined(DOCOPEN \o <<" ", name, " ">> \o BLOCKCLOSE),
                      Defined(DOCOPEN \o <<" ", name, "\n", " ">> \o BLOCKCLOSE)})

\* generateDocs is called with the records of one file.
InitGenerate ==
    /\ pc = "generate"
    /\ source \in LayoutFiles
    /\ functions = RecordsOf(source)
    /\ tasks = SortDescending(Undocumented(RecordsOf(source)), RecordsOf(source))
    /\ documentedFunctions = <<>>
    /\ files = <<source.filePath>>
    /\ cursor = 1
    /\ disk = [filePath \in {source.filePath} |-> source.sourceCode]
    /\ functionsToReturn = <<>>
    /\ console = {}
    /\ processed = <<>>
    /\ running = <<>>
    /\ cli = NoCli
    /\ commentText = <<>>
    /\ language = NoLanguage
    /\ validation = NotCalled

\* One task of generateDocs for an answer that names the function; a task
\* that throws ends the run.
DocumentNext ==
    /\ pc = "generate"
    /\ tasks # <<>>
    /\ LET func == functions[Head(tasks)] IN
       \E docComment \in NamedResponses(LangKeyOf(func.filePath), func.name),
          io \in IoOutcomes :
          LET out == DocumentTask(func, docComment, io, disk[func.filePath],
                                  functionsToReturn)
          IN /\ functionsToReturn' = out.functionsToReturn
             /\ disk' = [disk EXCEPT ![func.filePath] = out.fileContent]
             /\ IF out.threw
                THEN /\ tasks' = <<>>
                     /\ console' = console \cup {FailedToGenerate(func)}
                     /\ UNCHANGED functions
                ELSE /\ tasks' = Tail(tasks)
                     /\ functions' = [functions EXCEPT ![Head(tasks)].isDocumented = TRUE]
                     /\ UNCHANGED console
    /\ UNCHANGED <<pc, source, documentedFunctions, files, cursor, processed,
                   running, cli, commentText, language, validation>>

NextGenerate ==
    \/ DocumentNext
    \/ ReturnDocs

SpecGenerate == InitGenerate /\ [][NextGenerate]_vars

----------------------------------------------------------------------------
(* One answer written by generateDocs and classified by a later run *)

\* What generateText may answer for a file of a language: the texts the
\* classifier is checked on, bare or inside a fence.
AnswersFor(lang) ==
    TextsFor(lang) \cup
        {FENCE \o <<"\n">> \o t \o <<"\n">> \o FENCE : t \in Examples}

\* generateDocs is called with the one function of a file of a supported
\* extension; commentText is the answer generateText will give.
InitRoundTrip ==
    /\ pc = "answer"
    /\ source \in {LayoutFile(ext, <<"block">>) : ext \in RegistryExtensions}
    /\ functions = RecordsOf(source)
    /\ tasks = <<1>>
    /\ language = getLanguageForFile(source.filePath)
    /\ commentText \in AnswersFor(getLanguageForFile(source.filePath))
    /\ validation = NotCalled
    /\ documentedFunctions = <<>>
    /\ files = <<source.filePath>>
    /\ cursor = 1
    /\ disk = [filePath \in {source.filePath} |-> source.sourceCode]
    /\ functionsToReturn = <<>>
    /\ console = {}
    /\ processed = <<>>
    /\ running = <<>>
    /\ cli = NoCli

\* The task of the function with the answer commentText, the file readable
\* and writable.
AnswerTask ==
    /\ pc = "answer"
    /\ LET func == functions[Head(tasks)]
           out == DocumentTask(func, Defined(commentText), "ok", disk[func.filePath],
                               functionsToReturn)
       IN /\ functionsToReturn' = out.functionsToReturn
          /\ disk' = [disk EXCEPT ![func.filePath] = out.fileContent]
          /\ tasks' = <<>>
          /\ IF out.threw
             THEN /\ pc' = "failed"
                  /\ console' = console \cup {FailedToGenerate(func)}
                  /\ UNCHANGED functions
             ELSE /\ pc' = "written"
                  /\ functions' = [functions EXCEPT ![Head(tasks)].isDocumented = TRUE]
                  /\ UNCHANGED console
    /\ UNCHANGED <<source, documentedFunctions, files, cursor, processed,
                   running, cli, commentText, language, validation>>

\* A later run hands the comment that was written to the classifier, with the
\* language of the file.
ClassifyWritten ==
    /\ pc = "written"
    /\ validation' = isValidDocumentation(functionsToReturn[1].documentation, language)
    /\ pc' = "reclassified"
    /\ UNCHANGED <<source, functions, documentedFunctions, files, cursor, tasks,
                   functionsToReturn, disk, console, processed, running, cli,
                   commentText, language>>

NextRoundTrip ==
    \/ AnswerTask
    \/ ClassifyWritten

SpecRoundTrip == InitRoundTrip /\ [][NextRoundTrip]_vars

----------------------------------------------------------------------------
(* Claims about the scan of several files *)

IsPrefix(s, t) == Len(s) <= Len(t) /\ SubSeq(t, 1, Len(s)) = s

\* The entries of the documented records of fs, in the order of fs.
EntriesOf(fs) ==
    LET documented == SelectSeq(fs, LAMBDA r : r.isDocumented /\ r.cleanedDoc # Undefined)
    IN [i \in DOMAIN documented |->
           [name |-> documented[i].name, documentation |-> documented[i].cleanedDoc[1],
            filePath |-> documented[i].filePath]]

\* C3: documentedFunctions is append-only over the whole run: every step keeps
\* the entries it holds, in their places, and adds entries at the end only; the
\* entries a file's extraction adds are those of its documented functions in
\* the order the functions were found.
C3_AppendOnly ==
    [][/\ IsPrefix(documentedFunctions, documentedFunctions')
       /\ (pc = "scan" /\ pc' = "generate") =>
             documentedFunctions' = documentedFunctions \o EntriesOf(functions')]_vars

\* Entries of two files, found by extraction and written by generation, at
\* the end of a scan.
C3_Witness ==
    /\ pc = "done"
    /\ Len(documentedFunctions) >= 3
    /\ \E i, j \in DOMAIN documentedFunctions :
          /\ i < j
          /\ documentedFunctions[i].filePath # documentedFunctions[j].filePath
          /\ documentedFunctions[i].documentation = DocFor(LangKeyOf(documentedFunctions[i].filePath))
          /\ \E k \in DOMAIN processed :
                \E x \in DOMAIN EntriesOf(processed[k].records) :
                    documentedFunctions[j] = EntriesOf(processed[k].records)[x]

\* The names of the functions of a file of the scan, in source order.
NamesIn(file) ==
    IF "items" \in DOMAIN file
    THEN [i \in DOMAIN file.items |-> file.items[i].name]
    ELSE [i \in DOMAIN file.ast.body |-> file.ast.body[i].idName[1]]

ReadParseQuery == {"read", "parse", "query"}

ScanOver == pc \in {"confirm", "done", "raised"}

\* C4: a file whose reading, parsing or querying fails gets an empty record
\* list from processFile and an error naming its relative path, nothing being
\* raised; the files processed without failure get their records; a scan ends
\* before its last file only at a file that failed otherwise; and only the
\* prompt after the scan raises past parseAndDocument.
C4_FailureIsolated ==
    /\ [](/\ \A i \in DOMAIN processed :
                /\ processed[i].failing \in ReadParseQuery =>
                      /\ ~processed[i].threw
                      /\ processed[i].records = <<>>
                      /\ ErrorProcessing(processed[i].filePath) \in console
                      /\ ErrorProcessing(processed[i].filePath).path
                            = processed[i].filePath.stem \o processed[i].filePath.ext
                /\ processed[i].failing = "none" =>
                      [r \in DOMAIN processed[i].records |-> processed[i].records[r].name]
                          = NamesIn(FileAt(processed[i].filePath))
          /\ (ScanOver /\ Len(processed) < Len(files)) =>
                processed[Len(processed)].failing \notin ReadParseQuery \cup {"none"})
    /\ [][pc' = "raised" => pc = "confirm"]_vars

\* Three files, the second failing to parse: the first and the third have
\* their records at the end of the scan.
C4_Witness ==
    /\ pc = "done"
    /\ Len(files) = 3
    /\ Len(processed) = 3
    /\ processed[2].failing = "parse"
    /\ processed[2].records = <<>>
    /\ processed[1].failing = "none" /\ processed[1].records # <<>>
    /\ processed[3].failing = "none" /\ processed[3].records # <<>>

\* C5: no failure that arises while a file is processed stops the scan: when
\* the loop of parseAndDocument is over, every file of the scan has been taken.
C5_ScanNeverStopped ==
    ScanOver => Len(processed) = Len(files)


----------------------------------------------------------------------------
(* Claims about the classifier as a whole *)

\* The rule of a language applied to a text.
Accepted(text, lang) ==
    CASE lang \in {"js", "ts"} -> JsAccepts(text, Trim(text))
      [] lang = "python" -> PythonAccepts(text, Trim(text))
      [] lang = "rust" -> RustAccepts(text, Trim(text))
      [] lang = "java" -> JavaAccepts(text, Trim(text))
      [] lang = "go" -> GoAccepts(text, Trim(text))
      [] OTHER -> FALSE

\* C12: isValidDocumentation is total: a call can be made for every input and
\* returns either isValid = TRUE with the trimmed text or isValid = FALSE with
\* no text; it returns isValid = FALSE with no text whenever the language is
\* unset, the text is empty or the language's rule fails.
C12_Total ==
    /\ pc = "classify" => ENABLED Classify
    /\ pc = "classified" =>
          /\ validation.isValid \in BOOLEAN
          /\ validation.isValid => validation.doc = Defined(Trim(commentText))
          /\ ~validation.isValid => validation.doc = Undefined
          /\ (language = NoLanguage \/ commentText = <<>> \/ ~Accepted(commentText, language))
                => validation = [isValid |-> FALSE, doc |-> Undefined]

\* The call with an unset language and a text the js rule accepts.
C12_Witness ==
    /\ pc = "classified"
    /\ language = NoLanguage
    /\ commentText = <<"/", "*", "*", "/">>
    /\ validation = [isValid |-> FALSE, doc |-> Undefined]


----------------------------------------------------------------------------
(* Claims about the fields of a record *)

\* C13: in every record an engine returns, cleanedDoc is present exactly when
\* isDocumented is true.
C13_DocIffDocumented ==
    pc = "extracted" =>
        \A i \in DOMAIN functions :
            (functions[i].cleanedDoc # Undefined) <=> functions[i].isDocumented

\* A file of the tree engine with a documented and an undocumented function.
C13_Witness ==
    /\ pc = "extracted"
    /\ ~IsJsSource
    /\ Len(functions) = 2
    /\ functions[1].isDocumented /\ functions[1].cleanedDoc # Undefined
    /\ ~functions[2].isDocumented /\ functions[2].cleanedDoc = Undefined


----------------------------------------------------------------------------
(* Claims about the files the scan leaves alone *)

Unsupported(filePath) == filePath.ext \notin RegistryExtensions

\* C14: a file whose extension is, letter for letter, in no entry of the
\* registry is skipped without error: the step that takes it parses nothing,
\* calls no generateDocs and changes neither functions, documentedFunctions,
\* the console nor the disk; no record, entry or error ever names it.
C14_UnsupportedSkipped ==
    /\ [](/\ \A i \in DOMAIN processed :
                Unsupported(processed[i].filePath) =>
                    /\ processed[i].failing = "skipped"
                    /\ processed[i].records = <<>>
                    /\ ~processed[i].threw
          /\ \A e \in DOMAIN documentedFunctions :
                ~Unsupported(documentedFunctions[e].filePath)
          /\ \A m \in console, f \in DOMAIN files :
                Unsupported(files[f]) => m.path # RelativePath(files[f])
          /\ \A f \in DOMAIN files :
                Unsupported(files[f]) => disk[files[f]] = FileAt(files[f]).sourceCode)
    /\ [][(/\ pc = "scan"
           /\ cursor < Len(files)
           /\ cursor' = cursor + 1
           /\ Unsupported(files[cursor + 1]))
          => (/\ pc' = "scan"
              /\ UNCHANGED <<source, functions, documentedFunctions, tasks,
                             functionsToReturn, disk, console>>)]_vars

\* A scan that took a file with the extension .PY between two files it
\* processed, and went on to its end.
C14_Witness ==
    /\ pc = "done"
    /\ Len(processed) = 3
    /\ processed[2].filePath.ext = ".PY"
    /\ processed[2].failing = "skipped"
    /\ processed[1].records # <<>>
    /\ processed[3].records # <<>>


\* The line a record starts on is the line of its declaration: for the tree
\* engine the declaration line of its item, for the fallback engine a line
\* that is neither blank nor a line of a comment.
StartsOnDeclaration(r, lines) ==
    IF IsJsSource
    THEN /\ Trim(lines[r.startLine + 1]) # <<>>
         /\ ~StartsWith(Trim(lines[r.startLine + 1]), BLOCKOPEN)
         /\ ~StartsWith(Trim(lines[r.startLine + 1]), STAR)
    ELSE lines[r.startLine + 1]
            = DeclLine(getLanguageForFile(source.filePath), source.items[r.node])

\* C15: in every record startLine and endLine count from 0 and satisfy
\* 0 <= startLine <= endLine < number of lines of the file, startLine is the
\* line of the declaration and not of the comment above it, and sourceCode is
\* the lines startLine..endLine of the file joined by newlines.
C15_LineSpan ==
    pc = "extracted" =>
        LET lines == Split(source.sourceCode) IN
        \A i \in DOMAIN functions :
            /\ 0 <= functions[i].startLine
            /\ functions[i].startLine <= functions[i].endLine
            /\ functions[i].endLine < Len(lines)
            /\ StartsOnDeclaration(functions[i], lines)
            /\ functions[i].sourceCode
                  = Join([k \in 1..(functions[i].endLine - functions[i].startLine + 1) |->
                             lines[functions[i].startLine + k]])

\* A function of two lines that does not start on the first line of its file.
C15_Witness ==
    /\ pc = "extracted"
    /\ ~IsJsSource
    /\ \E i \in DOMAIN functions :
          /\ functions[i].startLine >= 1
          /\ functions[i].endLine > functions[i].startLine
          /\ Len(Split(functions[i].sourceCode)) = 2


----------------------------------------------------------------------------
(* Claims about generateDocs *)

\* C16: generateDocs is given exactly the records of the file whose
\* isDocumented is false: a task exists for each of them and for no other
\* record, and only the task of a record with isDocumented false asks for
\* documentation or writes to the file.
C16_DocumentedSkipped ==
    /\ [](pc = "generate" =>
             \A k \in DOMAIN tasks : ~functions[tasks[k]].isDocumented)
    /\ [][(pc = "scan" /\ pc' = "generate") =>
             /\ {tasks'[k] : k \in DOMAIN tasks'}
                   = {i \in DOMAIN functions' : ~functions'[i].isDocumented}
             /\ \A k, l \in DOMAIN tasks' : tasks'[k] = tasks'[l] => k = l]_vars
    /\ [][(disk' # disk \/ Len(functionsToReturn') > Len(functionsToReturn)) =>
             /\ pc = "generate"
             /\ tasks # <<>>
             /\ ~functions[Head(tasks)].isDocumented
             /\ functionsToReturn'[Len(functionsToReturn')].name
                   = functions[Head(tasks)].name]_vars

\* b.ts after generation: f, found documented, has no entry of generateDocs
\* and g has one; the file was written once.
C16_Witness ==
    /\ pc = "generate"
    /\ tasks = <<>>
    /\ source.filePath = FileTs.filePath
    /\ Len(functions) = 2
    /\ processed[Len(processed)].records[1].isDocumented
    /\ Len(functionsToReturn) = 1
    /\ functionsToReturn[1].name = "g"
    /\ Len(Split(disk[source.filePath])) = Len(Split(FileTs.sourceCode)) + 1

----------------------------------------------------------------------------
(* Claims about the concurrent tasks of generateDocs *)

\* The line a task puts into the file for its function: the comment, indented
\* below the def line for Python.
InsertedLine(func, doc) ==
    IF LangKeyOf(func.filePath) = "py"
    THEN LeadingSpace(Split(source.sourceCode)[func.startLine + 1])
             \o <<" ", " ", " ", " ">> \o doc
    ELSE doc

\* The comment of a function stands in the lines exactly once and at the
\* function's declaration: right below the def line for Python, right above
\* the declaration otherwise.
PlacedOnce(lines, func, doc) ==
    LET decl == Split(source.sourceCode)[func.startLine + 1]
        hits == {i \in DOMAIN lines : lines[i] = InsertedLine(func, doc)}
    IN /\ Cardinality(hits) = 1
       /\ \A i \in hits :
             IF LangKeyOf(func.filePath) = "py"
             THEN i > 1 /\ lines[i - 1] = decl
             ELSE i < Len(lines) /\ lines[i + 1] = decl

\* C17: when the tasks of one file run concurrently and all of them have
\* completed without error, the file holds the comment of every task exactly
\* once, each at the declaration of its own function, whatever the order of
\* the tasks' reads and writes was.
C17_NoInsertionLost ==
    AllCompleted =>
        \A k \in DOMAIN running :
            PlacedOnce(Split(disk[source.filePath]), functions[running[k].func],
                       running[k].documentation)

----------------------------------------------------------------------------
(* Claims about main *)

\* parseAndDocument has started: a file has been taken, or the program stands
\* in the loop or behind it.
ScanStarted ==
    \/ pc \in {"scan", "generate", "confirm", "done", "raised"}
    \/ cursor > 0
    \/ processed # <<>>

\* C18: unless options.unsafe is set, parseAndDocument starts only after
\* validateGitState has run both git commands in a work tree without
\* uncommitted changes; outside a repository or with uncommitted changes main
\* reports the error and exits with code 1 and no file has been scanned or
\* changed; under options.unsafe validateGitState runs no git command.
C18_GitStateFirst ==
    /\ []((ScanStarted /\ ~cli.unsafe) =>
             /\ cli.workTree = "clean"
             /\ Len(cli.executed) >= 2
             /\ SubSeq(cli.executed, 1, 2) = <<RevParse, StatusPorcelain>>)
    /\ []((~cli.unsafe /\ cli.workTree # "clean") =>
             /\ ~ScanStarted
             /\ disk = OriginalDisk
             /\ documentedFunctions = <<>>)
    /\ [][(pc = "validateGitState" /\ ~cli.unsafe /\ cli.workTree # "clean") =>
             /\ pc' = "exited"
             /\ cli'.exitCode = Defined(1)
             /\ console' \ console
                   = {IF cli.workTree = "no repository" THEN NotARepository
                      ELSE UncommittedChanges}]_vars
    /\ [][(pc = "validateGitState" /\ cli.unsafe) =>
             /\ pc' = "scan"
             /\ cli' = cli]_vars

\* main has exited with code 1 on uncommitted changes, and elsewhere a file
\* has been documented in a clean work tree.
C18_Witness ==
    \/ /\ pc = "exited"
       /\ cli.workTree = "uncommitted changes"
       /\ cli.exitCode = Defined(1)
       /\ UncommittedChanges \in console
    \/ /\ pc = "exited"
       /\ ~cli.unsafe
       /\ disk # OriginalDisk
       /\ CommitDocs \in {cli.executed[i] : i \in DOMAIN cli.executed}

----------------------------------------------------------------------------
(* Claims about the comment captures of a match *)

KeyOfMatch(match) ==
    funcKey(FindCapture(match.captures, "function_name")[1],
            FindCapture(match.captures, "function")[1])

\* The matches the callback retains: those with both captures whose key no
\* earlier match has.
RetainedIn(matches) ==
    {m \in DOMAIN matches :
        /\ FindCapture(matches[m].captures, "function") # <<>>
        /\ FindCapture(matches[m].captures, "function_name") # <<>>
        /\ \A n \in 1..(m - 1) : KeyOfMatch(matches[n]) # KeyOfMatch(matches[m])}

\* The place of the first doc capture the classifier accepts among the doc
\* captures of a match, 0 when it accepts none.
FirstAccepted(match, lang) ==
    LET docs == FilterCaptures(match.captures, "doc")
        accepted == {d \in DOMAIN docs : isValidDocumentation(docs[d].node.text, lang).isValid}
    IN IF accepted = {} THEN 0 ELSE CHOOSE d \in accepted : \A e \in accepted : d <= e

\* C20: in the tree engine the records and entries of a file are those of
\* the retained matches in order: the record of a match is documented exactly
\* when the classifier accepts one of its doc captures and its cleanedDoc is
\* the trimmed text of the first accepted capture in capture order, whatever
\* the later captures are; an entry with that text is appended for it, one
\* per retained match with an accepted capture and in the order of the
\* matches, and none for a match without an accepted capture.
C20_FirstAcceptedCapture ==
    [][(pc = "extract" /\ pc' = "extracted" /\ "items" \in DOMAIN source) =>
          LET lang == getLanguageForFile(source.filePath) IN
          \E matches \in QueryMatchOrders(lang, source.items) :
             LET kept == RetainedIn(matches)
                 documented == {m \in kept : FirstAccepted(matches[m], lang) # 0}
                 place(m) == Cardinality({n \in kept : n <= m})
                 entryPlace(m) ==
                     Len(documentedFunctions) + Cardinality({n \in documented : n <= m})
                 docText(m) ==
                     Trim(FilterCaptures(matches[m].captures, "doc")
                              [FirstAccepted(matches[m], lang)].node.text)
                 nameOf(m) == FindCapture(matches[m].captures, "function_name")[1].node.text
             IN /\ Len(functions') = Cardinality(kept)
                /\ \A m \in kept :
                      /\ functions'[place(m)].name = nameOf(m)
                      /\ functions'[place(m)].isDocumented = (m \in documented)
                      /\ functions'[place(m)].cleanedDoc =
                            IF m \in documented THEN Defined(docText(m)) ELSE Undefined
                /\ Len(documentedFunctions')
                      = Len(documentedFunctions) + Cardinality(documented)
                /\ SubSeq(documentedFunctions', 1, Len(documentedFunctions))
                      = documentedFunctions
                /\ \A m \in documented :
                      documentedFunctions'[entryPlace(m)] =
                         [name |-> nameOf(m), documentation |-> docText(m),
                          filePath |-> source.filePath]]_vars

\* A Go function below a TODO comment and a comment the classifier accepts:
\* the first capture is rejected and the second recorded; and a Go function
\* below two comments it accepts, recorded with the first.
C20_Witness ==
    /\ pc = "extracted"
    /\ "items" \in DOMAIN source
    /\ Len(source.items) = 2
    /\ source.items[1].comments = <<GoTodo, GoDoc>>
    /\ source.items[2].comments = <<GoDoc, GoNote>>
    /\ source.items[2].name = "f"
    /\ Len(functions) = 2
    /\ functions[1].cleanedDoc = Defined(GoDoc.text)
    /\ functions[2].isDocumented
    /\ Len(documentedFunctions) = 2

----------------------------------------------------------------------------
(* Claims about the text the classifier returns *)

\* C21: whenever isValidDocumentation accepts a text, for any language key,
\* the doc it returns is the input from its first to its last character that
\* is not white space, nothing else changed; a doc is returned if and only if
\* isValid is true.
C21_TrimmedOnly ==
    pc = "classified" =>
        /\ validation.isValid => validation.doc = Defined(TrimmedForm(commentText))
        /\ (validation.doc # Undefined) <=> validation.isValid

\* A Python text accepted with white space on both sides of its quotes.
C21_Witness ==
    /\ pc = "classified"
    /\ language = "python"
    /\ commentText = <<" ">> \o TRIPLEQUOTE \o <<" ">>
    /\ validation = [isValid |-> TRUE, doc |-> Defined(TRIPLEQUOTE)]

----------------------------------------------------------------------------
(* Claims about the order of files and tasks *)

\* A task that has been started and has neither completed nor thrown.
UnderWay(k) == running[k].stage \notin {"completed", "failed"}

\* C22: files are handled one at a time: when generateDocs has returned to
\* the loop of parseAndDocument, which then takes the next file, every
\* documentation task started for the current file has finished, its write
\* of the file included.
C22_TasksFinishedAtReturn ==
    pc = "returned" => \A k \in DOMAIN running : ~UnderWay(k)

----------------------------------------------------------------------------
(* Claims about the records after their emission *)

\* C23: once the records of a file are emitted, the only change made to a
\* record is isDocumented going from false to true, and it is made in the
\* step in which a comment for that function, one that passes the validation
\* of its format, has been written into the function's file; isDocumented
\* never goes from true to false and no other field changes.
C23_OnlyFlagFlips ==
    [][(pc = "generate" /\ functions' # functions) =>
          /\ DOMAIN functions' = DOMAIN functions
          /\ \A i \in DOMAIN functions :
                functions'[i] # functions[i] =>
                   /\ ~functions[i].isDocumented
                   /\ functions'[i] = [functions[i] EXCEPT !.isDocumented = TRUE]
                   /\ Len(functionsToReturn') = Len(functionsToReturn) + 1
                   /\ LET entry == functionsToReturn'[Len(functionsToReturn')]
                          langKey == LangKeyOf(functions[i].filePath)
                      IN /\ entry.name = functions[i].name
                         /\ entry.filePath = functions[i].filePath
                         /\ validateAndCleanResponse(entry.documentation, langKey)
                               = Returned(entry.documentation)
                         /\ disk'[entry.filePath] # disk[entry.filePath]
                         /\ Len(Split(disk'[entry.filePath]))
                               = Len(Split(disk[entry.filePath]))
                                    + Len(Split(entry.documentation))
                         /\ Includes(disk'[entry.filePath], entry.documentation)]_vars

\* The function g of a.py has been flagged and its docstring is in the file.
C23_Witness ==
    /\ pc = "generate"
    /\ source.filePath = FilePy.filePath
    /\ Len(functions) = 2
    /\ functions[2].name = "g"
    /\ functions[2].isDocumented
    /\ functions[2].cleanedDoc = Undefined
    /\ Includes(disk[FilePy.filePath], DocFor("py"))
    /\ ~Includes(FilePy.sourceCode, DocFor("py"))

----------------------------------------------------------------------------
(* Claims about the place of an inserted comment *)

\* The lines of a text, each behind the indentation.
IndentedLines(indentation, text) ==
    LET ls == Split(text) IN [i \in DOMAIN ls |-> indentation \o ls[i]]

\* C24: for Python the docstring of a task is put inside the function, behind
\* the whole def header and before the first line of the body that is not
\* empty, every line of it indented by the indentation of the def line and
\* four spaces, whatever the span of the function: a header of one line, a
\* header of several lines, a function of one line.
C24_DocstringInsideBody ==
    [][(/\ pc = "generate"
        /\ "spans" \in DOMAIN source
        /\ LangKeyOf(source.filePath) = "py"
        /\ functions' # functions) =>
          LET span == source.spans[Head(tasks)]
              lines == Split(disk[source.filePath])
              docstring == functionsToReturn'[Len(functionsToReturn')].documentation
              indentation == LeadingSpace(lines[span.start + 1]) \o <<" ", " ", " ", " ">>
          IN /\ span.body >= 0
             /\ Split(disk'[source.filePath])
                   = SubSeq(lines, 1, span.body)
                        \o IndentedLines(indentation, docstring)
                        \o SubSeq(lines, span.body + 1, Len(lines))]_vars

\* Every task of the file has completed: each record is flagged.
AllDocumented ==
    /\ tasks = <<>>
    /\ functions # <<>>
    /\ \A j \in DOMAIN functions : functions[j].isDocumented

\* The comment returned for record j stands in the lines directly above the
\* line its function's declaration starts on.
DirectlyAbove(lines, j) ==
    LET declaration == Split(source.sourceCode)[functions[j].startLine + 1]
        comments == {e \in DOMAIN functionsToReturn :
                        functionsToReturn[e].name = functions[j].name}
    IN /\ comments # {}
       /\ \A e \in comments :
             LET docLines == Split(functionsToReturn[e].documentation) IN
             \E i \in 1..Len(lines) :
                /\ i + Len(docLines) <= Len(lines)
                /\ SubSeq(lines, i, i + Len(docLines) - 1) = docLines
                /\ lines[i + Len(docLines)] = declaration

\* C25 as stated: when the tasks of a file that is not Python have run one
\* after the other in descending order of startLine, every comment stands
\* directly above the first line of its own function's declaration, for any
\* set of functions, nested ones included.
C25_AsStated ==
    ("spans" \in DOMAIN source /\ LangKeyOf(source.filePath) # "py" /\ AllDocumented) =>
        \A j \in DOMAIN functions : DirectlyAbove(Split(disk[source.filePath]), j)

\* The placement C25 states, for the sets of functions no two of which start
\* on the same line, nested ones included: there it holds.
C25_DistinctStartLines ==
    (/\ "spans" \in DOMAIN source
     /\ LangKeyOf(source.filePath) # "py"
     /\ AllDocumented
     /\ \A j, k \in DOMAIN functions :
           functions[j].startLine = functions[k].startLine => j = k) =>
        \A j \in DOMAIN functions : DirectlyAbove(Split(disk[source.filePath]), j)

\* A block below a function with a function in its body, in a .ts file, all
\* three documented, the innermost with a comment of two lines.
C25_Witness ==
    /\ "spans" \in DOMAIN source
    /\ source = LayoutFile(".ts", <<"nested", "block">>)
    /\ AllDocumented
    /\ Len(functionsToReturn) = 3
    /\ \E e \in DOMAIN functionsToReturn :
          /\ functionsToReturn[e].name = FunctionNames[2]
          /\ Len(Split(functionsToReturn[e].documentation)) = 2
    /\ Len(Split(disk[source.filePath])) > Len(Split(source.sourceCode)) + 3

\* C26: every entry of the list generateDocs returns belongs to a function
\* whose comment was written to its file: when the tasks have ended and the
\* list is about to be returned, the file of each entry holds the entry's
\* documentation; a failed read or write leaves no entry behind.
C26_ReturnedWasWritten ==
    (pc = "generate" /\ tasks = <<>>) =>
        \A e \in DOMAIN functionsToReturn :
            Includes(disk[functionsToReturn[e].filePath],
                     functionsToReturn[e].documentation)

\* C27: for every file extension the language registry accepts, the task of
\* an undocumented function of such a file resolves an entry of
\* DOCUMENTATION_FORMATS: the key generateDocs derives from the path of the
\* function it documents next is a key of the table.
C27_FormatResolved ==
    (pc = "generate" /\ tasks # <<>>) =>
        LET func == functions[Head(tasks)] IN
        func.filePath.ext \in RegistryExtensions =>
            LangKeyOf(func.filePath) \in DOCUMENTATION_FORMATS

\* C28: round trip between generation and detection: for every language, a
\* text validateAndCleanResponse accepts and returns is classified valid by
\* isValidDocumentation for the same language.
C28_RoundTrip ==
    pc = "reclassified" => validation.isValid

\* The matches of the query for a record: those whose function_name text and
\* function start row are the record's.
MatchesOfRecord(matches, record) ==
    {m \in DOMAIN matches :
        /\ FindCapture(matches[m].captures, "function") # <<>>
        /\ FindCapture(matches[m].captures, "function_name") # <<>>
        /\ FindCapture(matches[m].captures, "function_name")[1].node.text = record.name
        /\ FindCapture(matches[m].captures, "function")[1].node.startRow = record.startLine}

\* C29: in the tree engine a function is emitted with isDocumented = true
\* whenever at least one match for its name and start line carries a comment
\* capture the classifier accepts, in whatever order the query engine returned
\* the matches of that function.
C29_DocumentedInAnyOrder ==
    (pc = "extracted" /\ "items" \in DOMAIN source) =>
        LET lang == getLanguageForFile(source.filePath)
            matches == CHOOSE ms \in QueryMatchOrders(lang, source.items) : TRUE
        IN \A j \in DOMAIN functions :
              (\E m \in MatchesOfRecord(matches, functions[j]) :
                    FirstAccepted(matches[m], lang) # 0)
                 => functions[j].isDocumented

\* The lines the while loop of getJSDocComment reads, in the order it reads
\* them: lines[currentLine] of every pass the loop enters.
RECURSIVE Examined(_, _)
Examined(lines, st) ==
    IF st.done \/ st.currentLine < 0 THEN <<>>
    ELSE <<st.currentLine>> \o Examined(lines, ScanIteration(lines, st))

\* C30: the upward scan of getJSDocComment ends for every source text and
\* every function start line: it reads only lines above the function, each at
\* most once and in strictly decreasing order, never a line below 0, so at
\* most as many lines as stand above the function; it ends by break or with
\* currentLine at -1; and it reads no line when the function starts on line 0,
\* which is then recorded as not documented.
C30_ScanTerminates ==
    (pc = "extracted" /\ "ast" \in DOMAIN source) =>
        \A j \in DOMAIN functions :
            LET lines == Split(source.sourceCode)
                functionStartLine == functions[j].startLine
                examined == Examined(lines, ScanStart(functionStartLine))
                final == ScanLoop(lines, ScanStart(functionStartLine))
            IN /\ \A i \in DOMAIN examined :
                     examined[i] >= 0 /\ examined[i] < functionStartLine
               /\ \A i \in 1..(Len(examined) - 1) : examined[i + 1] < examined[i]
               /\ Len(examined) <= functionStartLine
               /\ final.done \/ final.currentLine = -1
               /\ final.currentLine >= -1
               /\ functions[j].isDocumented = (final.docLines # <<>>)
               /\ functionStartLine = 0 =>
                     examined = <<>> /\ ~functions[j].isDocumented

\* The function below MaxAbove lines that all continue a comment, none of
\* them opening it: the scan reads every line from the one above the function
\* up to line 0 and ends there without a break.
C30_Witness ==
    /\ pc = "extracted"
    /\ "ast" \in DOMAIN source
    /\ Len(functions) = 1
    /\ functions[1].startLine = MaxAbove
    /\ LET lines == Split(source.sourceCode)
           examined == Examined(lines, ScanStart(functions[1].startLine))
           final == ScanLoop(lines, ScanStart(functions[1].startLine))
       IN /\ examined = [i \in 1..MaxAbove |-> MaxAbove - i]
          /\ ~final.done
          /\ final.currentLine = -1
          /\ Len(final.docLines) = MaxAbove
          /\ functions[1].isDocumented

====
